---- MODULE Spec2Model ----
(***************************************************************************)
(* Calendar overlay (andreashustad/calendar-app): the interval algebra of  *)
(* lib/freebusy, and the session / refresh / panic state machine of the    *)
(* CalendarOverlayApp component.                                           *)
(*                                                                         *)
(* Time is counted in minutes of local time from 00:00 of day 0, which is  *)
(* a Monday.  A Date is the number of its minute; a civil date string is   *)
(* the number of its day.                                                  *)
(***************************************************************************)
EXTENDS Integers, Sequences, FiniteSets, TLC

(***************************************************************************)
(* Program constants.                                                      *)
(***************************************************************************)
\* 60000 ms in a minute (the divisor of invertBusyToFree), 60 minutes in the
\* hour that Date.setHours counts.
MinPerHour == 60
\* Date.setHours(h) with h in 0..23: a day has 24 hours.
HoursPerDay == 24

DayMin == HoursPerDay * MinPerHour
\* window.setTimeout(() => panic(), 45 * 60 * 1000): the delay in minutes
InactivityMin == 45
\* The clock advances in steps of a third of that delay.
TickMin == InactivityMin \div 3

(***************************************************************************)
(* Bounds of the model.                                                    *)
(***************************************************************************)
\* The longest interval list handed to the interval algebra.
MaxLen == 2
\* The interval algebra is exercised on the hours 0..MaxHour of day 0.
MaxHour == 2
\* The most refresh() calls in flight at once.
MaxInFlight == 1
\* The clock runs for at most MaxTicks ticks.
MaxTicks == 4
\* The ids the browser hands out for timers.
MaxTimerId == 3
\* The user keeps at most MaxViews saved views.
MaxViews == 2
\* A provider cuts a listing into at most MaxPages pages.
MaxPages == 3
\* The civil dates 0..MaxDate are given to the date functions.
MaxDate == 13

Max(a, b) == IF a >= b THEN a ELSE b
Min(a, b) == IF a <= b THEN a ELSE b
Range(s) == {s[i] : i \in 1..Len(s)}

RECURSIVE SelectSeqBy(_, _)
\* Array.prototype.filter with the predicate given as a set of kept elements.
SelectSeqBy(s, keep) ==
  IF s = <<>> THEN <<>>
  ELSE IF Head(s) \in keep THEN <<Head(s)>> \o SelectSeqBy(Tail(s), keep)
       ELSE SelectSeqBy(Tail(s), keep)

(***************************************************************************)
(* Interval algebra (lib/freebusy).                                        *)
(***************************************************************************)
Interval(s, e) == [start |-> s, end |-> e]

RECURSIVE InsertByStart(_, _)
\* Insert x after every element whose start is <= x.start: the stable order
\* of Array.prototype.sort under the comparator a.start - b.start.
InsertByStart(sorted, x) ==
  IF sorted = <<>> THEN <<x>>
  ELSE IF Head(sorted).start <= x.start
       THEN <<Head(sorted)>> \o InsertByStart(Tail(sorted), x)
       ELSE <<x>> \o sorted

\* A variant that leaves the intervals in the order given.
SortByStart_asGiven(s) == s

RECURSIVE SortByStart(_)
SortByStart(s) ==
  IF s = <<>> THEN <<>>
  ELSE InsertByStart(SortByStart(SubSeq(s, 1, Len(s) - 1)), s[Len(s)])

\* A variant that takes the later interval's end as the merged end.
MergeExtend_lastEnd(prev, curr) == curr.end

\* prev.end = new Date(Math.max(prev.end, curr.end))
MergeExtend(prev, curr) == Max(prev.end, curr.end)

\* A variant that leaves touching intervals apart.
MergeTouches_strict(prev, curr) == curr.start < prev.end

\* curr.start <= prev.end: an interval that only touches is merged too
MergeTouches(prev, curr) == curr.start <= prev.end

\* A variant that starts the pushed interval where the previous one ends.
MergePush_fromPrevEnd(prev, curr) == Interval(prev.end, curr.end)

\* merged.push(curr): the interval goes to the output as it is
MergePush(prev, curr) == curr

RECURSIVE MergeScan(_, _, _)
\* The for loop of mergeIntervals, from index i on.
MergeScan(sorted, i, merged) ==
  IF i > Len(sorted) THEN merged
  ELSE LET prev == merged[Len(merged)]
           curr == sorted[i]
       IN  IF MergeTouches(prev, curr)
           THEN MergeScan(sorted, i + 1,
                  [merged EXCEPT ![Len(merged)].end = MergeExtend(prev, curr)])
           ELSE MergeScan(sorted, i + 1, Append(merged, MergePush(prev, curr)))

mergeIntervals(intervals) ==
  IF Len(intervals) = 0 THEN <<>>
  ELSE LET sorted == SortByStart(intervals)
       IN  MergeScan(sorted, 2, <<sorted[1]>>)

\* `[...intervals]` is a shallow copy: each element of sorted is the object
\* at position ref of the caller's array.
Refs(intervals) ==
  [i \in 1..Len(intervals) |->
     [start |-> intervals[i].start, end |-> intervals[i].end, ref |-> i]]

RECURSIVE MergeObjects(_, _, _, _)
\* The for loop of mergeIntervals seen from the caller's objects: prev is
\* the object at position last, and `prev.end = ...` assigns to it.
MergeObjects(objects, sorted, i, last) ==
  IF i > Len(sorted) THEN objects
  ELSE LET prev == objects[last]
           curr == objects[sorted[i].ref]
       IN  IF MergeTouches(prev, curr)
           THEN MergeObjects([objects EXCEPT ![last].end = MergeExtend(prev, curr)],
                             sorted, i + 1, last)
           ELSE MergeObjects(objects, sorted, i + 1, sorted[i].ref)

\* The caller's interval objects as they are when mergeIntervals has returned.
InputAfterMerge(intervals) ==
  IF Len(intervals) = 0 THEN intervals
  ELSE LET sorted == SortByStart(Refs(intervals))
       IN  MergeObjects(intervals, sorted, 2, sorted[1].ref)

\* new Date(date).setHours(hour, 0, 0, 0), date being a Date of day `day`
AtHour(day, hour) == day * DayMin + hour * MinPerHour

RECURSIVE ClampMap(_, _, _)
ClampMap(intervals, dayStart, dayEnd) ==
  IF intervals = <<>> THEN <<>>
  ELSE <<Interval(Max(Head(intervals).start, dayStart),
                  Min(Head(intervals).end, dayEnd))>>
       \o ClampMap(Tail(intervals), dayStart, dayEnd)

\* A variant that keeps an intersection of no length.
ClampKeep_empty(i) == i.end >= i.start

\* .filter(i => i.end > i.start)
ClampKeep(i) == i.end > i.start

clampToWorkday(intervals, day, workStart, workEnd) ==
  LET dayStart == AtHour(day, workStart)
      dayEnd   == AtHour(day, workEnd)
      mapped   == ClampMap(intervals, dayStart, dayEnd)
  IN  SelectSeqBy(mapped, {i \in Range(mapped) : ClampKeep(i)})

\* The caller's interval objects when clampToWorkday has returned: map builds
\* an object literal with new Dates for each and assigns to none of them.
InputAfterClamp(intervals) == intervals

\* The caller's interval objects when invertBusyToFree has returned: the list
\* handed to mergeIntervals is the one clampToWorkday built.
InputAfterInvert(busy) == InputAfterClamp(busy)

\* A variant that drops a gap of exactly minMinutes.
LongEnough_strict(i, minMinutes) == i.end - i.start > minMinutes

\* (i.end - i.start) / 60000 >= minMinutes, the times being in minutes here
LongEnough(i, minMinutes) == i.end - i.start >= minMinutes

RECURSIVE InvertScan(_, _, _, _)
\* The for loop of invertBusyToFree over merged, from index k on; the result
\* is the pair of the free list and the cursor.
InvertScan(merged, k, cursor, free) ==
  IF k > Len(merged) THEN [free |-> free, cursor |-> cursor]
  ELSE LET b     == merged[k]
           free1 == IF b.start > cursor
                    THEN Append(free, Interval(cursor, b.start)) ELSE free
           cur1  == IF b.end > cursor THEN b.end ELSE cursor
       IN  InvertScan(merged, k + 1, cur1, free1)

invertBusyToFree(busy, day, workStart, workEnd, minMinutes) ==
  LET dayStart == AtHour(day, workStart)
      dayEnd   == AtHour(day, workEnd)
      merged   == mergeIntervals(clampToWorkday(busy, day, workStart, workEnd))
      scan     == InvertScan(merged, 1, dayStart, <<>>)
      free     == IF scan.cursor < dayEnd
                  THEN Append(scan.free, Interval(scan.cursor, dayEnd))
                  ELSE scan.free
  IN  SelectSeqBy(free, {i \in Range(free) : LongEnough(i, minMinutes)})

(***************************************************************************)
(* State.                                                                  *)
(***************************************************************************)
VARIABLES
  \* --- interval algebra harness (SpecAlg only) ---
  algPc,    \* "off", "input", "merged", "clamped", "inverted"
  algIn,    \* its input: [busy, p: [workStart, workEnd, minMinutes],
            \*   objects: the interval objects of busy as they are now]
  algOut,   \* the list the applied function returned
  \* --- one fetcher called on its own, against a provider's listing ---
  fetchCall, \* [phase, who, pc, url, acc, err, status, retryAfter, wait,
             \*  server, dup]
  \* --- useState of CalendarOverlayApp ---
  date,               \* selected civil date (day number)
  view,               \* "day" | "week"
  detailsMode,
  workStart, workEnd, minSlot,
  useCustomWorkHours, customWorkHours,
  msalApp,            \* TRUE once setMsalApp(app) has run
  msAccount,          \* TRUE when an AccountInfo is held
  googleReady,
  googleConnected,
  busy, events, loading, err,
  \* --- useRef ---
  googleToken,        \* googleTokenRef.current: Null or a token
  \* --- the browser and the identity SDKs ---
  sessionStorage,     \* the keys held in window.sessionStorage (MSAL's cache)
  loginPending,       \* msalApp.loginPopup of connectMicrosoft is open
  googlePending,      \* requestAccessToken was called, its callback is due
  effectPending,      \* a render changed the refresh effect's deps (or mount)
  refreshes,          \* the refresh() calls in flight, oldest first
  panicPc,            \* "idle", "logout", "revoke"
  reloaded,           \* window.location.reload() was called
  \* --- the inactivity timer ---
  now,                \* minutes since the mount
  timer,              \* `let timer` of the inactivity effect: 0 or a timer id
  pending,            \* the timers window.setTimeout holds: [id, due]
  \* --- saved views and window.localStorage ---
  savedViews,         \* the SavedView records, oldest first
  selectedViewId,     \* 0 (null) or the id of a saved view
  localStorage        \* key |-> the value last written under it

algVars == <<algPc, algIn, algOut>>
fetchVars == <<fetchCall>>
cfgVars == <<date, view, detailsMode, workStart, workEnd, minSlot,
             useCustomWorkHours, customWorkHours>>
sessVars == <<msalApp, msAccount, googleReady, googleConnected, googleToken,
              sessionStorage, loginPending, googlePending>>
dataVars == <<busy, events, loading, err, refreshes, effectPending>>
panicVars == <<panicPc, reloaded>>
timerVars == <<now, timer, pending>>
storeVars == <<savedViews, selectedViewId, localStorage>>
appVars == <<cfgVars, sessVars, dataVars, panicVars, timerVars, storeVars>>
vars == <<algVars, fetchVars, appVars>>

(***************************************************************************)
(* Values.                                                                 *)
(***************************************************************************)
Null == "null"
NoParams == [workStart |-> 0, workEnd |-> 0, minMinutes |-> 0]
Absent == "undefined"
\* What MSAL keeps in its cache (cacheLocation: "sessionStorage").
MsalKeys == {"msal.account", "msal.token"}
\* isoDate(new Date()) at mount: day 0, a Monday.
Today == 0

NoErr == [kind |-> "none", endpoint |-> "", status |-> 0]
\* new Error(`Graph calendarView: ${resp.status}`) and its three siblings
HttpErr(endpoint, status) == [kind |-> "http", endpoint |-> endpoint, status |-> status]
\* the rejection of msalApp.acquireTokenPopup / loginPopup
MsalErr(where) == [kind |-> "msal", endpoint |-> where, status |-> 0]
GoogleErr(what) == [kind |-> "google", endpoint |-> what, status |-> 0]

DAY_INDICES == 0..6
\* DEFAULT_WORK_HOURS_TEMPLATE
DEFAULT_WORK_HOURS_TEMPLATE ==
  [d \in DAY_INDICES |-> IF d \in {0, 6} THEN [start |-> 0, end |-> 0]
                         ELSE [start |-> 8, end |-> 17]]
createDefaultCustomWorkHours == DEFAULT_WORK_HOURS_TEMPLATE

\* Number.isFinite(Number(x)): the hours the component stores are integers
IsFinite(x) == x \in Int

\* A source without any day: what `undefined`, `null` and `{}` amount to.
NoHours == [day \in {} |-> [start |-> 0, end |-> 0]]

\* What the user may leave in an hour field: nothing, or digits; min and max
\* of the field do not stop an hour above 23 from being typed.
HourTexts == {"", "7", "18", "25"}

\* The value of the decimal numerals met.
NumeralValue(text) ==
  IF text = "0" THEN 0 ELSE IF text = "2" THEN 2 ELSE IF text = "7" THEN 7
  ELSE IF text = "8" THEN 8 ELSE IF text = "17" THEN 17 ELSE IF text = "18" THEN 18
  ELSE IF text = "30" THEN 30 ELSE 25

\* Number(text): 0 for the empty string, NaN for what is no numeral
NumberOf(text) ==
  IF text = "" THEN [nan |-> FALSE, value |-> 0]
  ELSE IF text \in {"0", "2", "7", "18", "25"} THEN [nan |-> FALSE, value |-> NumeralValue(text)]
  ELSE [nan |-> TRUE, value |-> 0]

\* parseInt(text || fallback, 10)
ParseInt(text, fallback) == NumeralValue(IF text = "" THEN fallback ELSE text)

\* clampHour: Math.max(0, Math.min(23, Math.round(value))), value an integer
clampHour(value) == Max(0, Min(23, value))

\* normalizeWorkHours(source), source being a map from some of the day
\* indices to { start, end }
normalizeWorkHours(source) ==
  IF DOMAIN source = {} THEN createDefaultCustomWorkHours
  ELSE [day \in DAY_INDICES |->
          IF day \notin DOMAIN source THEN createDefaultCustomWorkHours[day]
          ELSE LET candidate == source[day]
                   start == IF IsFinite(candidate.start) THEN clampHour(candidate.start)
                            ELSE createDefaultCustomWorkHours[day].start
                   endRaw == IF IsFinite(candidate.end) THEN clampHour(candidate.end)
                             ELSE createDefaultCustomWorkHours[day].end
               IN  [start |-> start, end |-> IF endRaw < start THEN start ELSE endRaw]]

\* createUniformWorkHours(start, end)
createUniformWorkHours(start, end) ==
  LET s == clampHour(start)
      eRaw == clampHour(end)
      e == IF eRaw < s THEN s ELSE eRaw
  IN  [day \in DAY_INDICES |-> [start |-> s, end |-> e]]

\* cloneWorkHours(hours)
cloneWorkHours(hours) == [day \in DAY_INDICES |-> [start |-> hours[day].start, end |-> hours[day].end]]

\* The keys of localStorage the component writes.
CUSTOM_HOURS_STORAGE_KEY == "calendar_custom_work_hours"
CUSTOM_HOURS_MODE_STORAGE_KEY == "calendar_use_custom_work_hours"
SAVED_VIEWS_STORAGE_KEY == "calendar_saved_views"
\* localStorage.setItem(key, value)
SetItem(storage, key, value) == [k \in DOMAIN storage \cup {key} |-> IF k = key THEN value ELSE storage[k]]

(***************************************************************************)
(* What the providers may answer.                                          *)
(***************************************************************************)
\* The Microsoft calendar: a private meeting from Monday 23:00 to Tuesday 10:00.
GraphCalendar ==
  {[start |-> AtHour(0, 23), end |-> AtHour(1, 10), showAs |-> "busy",
    sensitivity |-> "private", subject |-> "s1", location |-> "l1"]}
\* The Google calendar: a private event on Monday 09:00 to 10:00.
GoogleCalendar ==
  {[start |-> AtHour(0, 9), end |-> AtHour(0, 10), visibility |-> "private",
    summary |-> "g1", location |-> "l2"]}
\* A response page holds no entry or one entry of the calendar.
PagesOf(calendar) == {<<>>} \cup {<<e>> : e \in calendar}
\* 200; 429 and 503 (retried); 500 for every other non-2xx status.
HttpStatuses == {200, 429, 503, 500}

(***************************************************************************)
(* Adapters: what each fetcher makes of a response page.                   *)
(***************************************************************************)
RECURSIVE MapSeq(_, _)
MapSeq(s, f) == IF s = <<>> THEN <<>> ELSE <<f[Head(s)]>> \o MapSeq(Tail(s), f)

\* String.prototype.toLowerCase on the values showAs takes
ToLowerCase(text) ==
  IF text = "workingElsewhere" THEN "workingelsewhere" ELSE text

\* A variant that takes a missing showAs for free.
GraphIsBusy_statusOnly(e) ==
  e.showAs # Absent /\ ToLowerCase(e.showAs) # "free"

\* const showAs = (e.showAs || "").toLowerCase(); if (showAs !== "free")
GraphIsBusy(e) ==
  ToLowerCase(IF e.showAs = Absent THEN "" ELSE e.showAs) # "free"

\* fetchGraphFreeBusy, the body of the for loop over data.value
GraphBusyOf(page) ==
  LET kept == SelectSeqBy(page, {e \in Range(page) : GraphIsBusy(e) /\ e.end > e.start})
  IN  MapSeq(kept, [e \in Range(kept) |-> Interval(e.start, e.end)])

\* fetchGoogleFreeBusy: map to Dates, filter end > start
GoogleBusyOf(page) ==
  LET kept == SelectSeqBy(page, {e \in Range(page) : e.end > e.start})
  IN  MapSeq(kept, [e \in Range(kept) |-> Interval(e.start, e.end)])

\* location: e.location?.displayName
GraphLocation(e, isPriv) == e.location

\* items.push({...}) of fetchGraphDetails
GraphDetailItem(e) ==
  LET isPriv == e.sensitivity = "private"
  IN  [source |-> "microsoft", start |-> e.start, end |-> e.end,
       title |-> IF isPriv THEN "(Privat)"
                 ELSE IF e.subject = Absent THEN "(uten tittel)" ELSE e.subject,
       location |-> GraphLocation(e, isPriv),
       isPrivate |-> isPriv]

\* items.push({...}) of fetchGoogleDetails
GoogleDetailItem(e) ==
  LET isPriv == e.visibility = "private"
  IN  [source |-> "google", start |-> e.start, end |-> e.end,
       title |-> IF isPriv THEN "(Privat)"
                 ELSE IF e.summary = Absent THEN "(uten tittel)" ELSE e.summary,
       location |-> e.location,
       isPrivate |-> isPriv]

GraphDetailsOf(page) == MapSeq(page, [e \in Range(page) |-> GraphDetailItem(e)])
GoogleDetailsOf(page) == MapSeq(page, [e \in Range(page) |-> GoogleDetailItem(e)])
\* A variant that returns every item.
KeepPositive_all(items) == items

\* return items.filter((x) => x.end > x.start)
KeepPositive(items) == SelectSeqBy(items, {x \in Range(items) : x.end > x.start})

\* What a 200 page adds to the fetcher's list.
PageItems(phase, who, page) ==
  IF phase = "busy"
  THEN IF who = "ms" THEN GraphBusyOf(page) ELSE GoogleBusyOf(page)
  ELSE IF who = "ms" THEN GraphDetailsOf(page) ELSE GoogleDetailsOf(page)

\* The name each fetcher gives its endpoint in the Error it throws.
Endpoint(phase, who) ==
  IF phase = "busy"
  THEN IF who = "ms" THEN "Graph calendarView" ELSE "Google freeBusy"
  ELSE IF who = "ms" THEN "Graph details" ELSE "Google details"

\* The entries a provider may put on a page of that endpoint.
Calendar(who) == IF who = "ms" THEN GraphCalendar ELSE GoogleCalendar

(***************************************************************************)
(* A fetcher call in flight.                                               *)
(*   pc:     "token" (getMsToken pending), "request" (a fetch() is out),   *)
(*           "backoff", "ok" (returned acc), "failed" (threw err)          *)
(*   silent, popup: "none", "pending", "ok", "failed"                      *)
(*   token:  "unset", Null, "tok"                                          *)
(*   sent:   a network request was issued                                  *)
(***************************************************************************)
Fetcher(pc, silent, popup, token, sent) ==
  [pc |-> pc, silent |-> silent, popup |-> popup, token |-> token,
   sent |-> sent, acc |-> <<>>, err |-> NoErr]

\* `if (!token) return []`: no request is made
ReturnedEmpty == Fetcher("ok", "none", "none", Null, FALSE)

\* A variant that opens the popup without a silent attempt.
getMsToken_popupFirst(app) ==
  IF ~app THEN ReturnedEmpty
  ELSE IF "msal.account" \notin sessionStorage THEN ReturnedEmpty
  ELSE Fetcher("token", "none", "pending", "unset", FALSE)

\* getMsToken up to its first await of the SDK, inside fetchGraphFreeBusy or
\* fetchGraphDetails: null without an MSAL app or an account, else
\* acquireTokenSilent is called.
getMsToken(app) ==
  IF ~app THEN ReturnedEmpty
  ELSE IF "msal.account" \notin sessionStorage THEN ReturnedEmpty
  ELSE Fetcher("token", "pending", "none", "unset", FALSE)

\* A variant without the token check.
GoogleFetchStart_noCheck(tok) == Fetcher("request", "none", "none", tok, TRUE)

\* fetchGoogleFreeBusy / fetchGoogleDetails up to the first fetch(), tok being
\* googleTokenRef.current: `if (!googleTokenRef.current) return []`
GoogleFetchStart(tok) ==
  IF tok = Null THEN ReturnedEmpty
  ELSE Fetcher("request", "none", "none", tok, TRUE)

Running(f) == f.pc \in {"token", "request", "backoff"}

(***************************************************************************)
(* refresh(): one call in flight is                                        *)
(*   [cap: the values its closure captured, phase: "busy" | "details",     *)
(*    returned: refresh has returned while a fetcher of it still runs,     *)
(*    ms, g: its two fetchers, pre: busy as it was before its setBusy]     *)
(***************************************************************************)
Capture == [view |-> view, date |-> date, detailsMode |-> detailsMode, msalApp |-> msalApp]
\* The closure of the first render: the token client's callback and the
\* inactivity timer were created in effects with no deps.
FirstRender == [view |-> "day", date |-> Today, detailsMode |-> FALSE, msalApp |-> FALSE]

Ui == [busy |-> busy, events |-> events, err |-> err, loading |-> loading]

RECURSIVE TagSeq(_, _)
TagSeq(s, source) ==
  IF s = <<>> THEN <<>>
  ELSE <<[start |-> Head(s).start, end |-> Head(s).end, source |-> source]>>
       \o TagSeq(Tail(s), source)
\* A variant that orders the blocks of both providers by start.
busyBlocks_byStart(msBusy, gBusy) ==
  SortByStart(TagSeq(msBusy, "microsoft") \o TagSeq(gBusy, "google"))

\* const busyBlocks = [...msBusy.map(...), ...gBusy.map(...)]
busyBlocks(msBusy, gBusy) == TagSeq(msBusy, "microsoft") \o TagSeq(gBusy, "google")

\* [...msDet, ...gDet].sort((a, b) => a.start - b.start)
\* A variant that leaves the concatenation unsorted.
sortedDetails_concat(msDet, gDet) == msDet \o gDet

sortedDetails(msDet, gDet) == SortByStart(msDet \o gDet)

FailedOne(r) == IF r.ms.pc = "failed" THEN r.ms ELSE r.g
AnyFailed(r) == r.ms.pc = "failed" \/ r.g.pc = "failed"
\* A variant in which a settled Google fetcher is enough (allSettled).
BothOk_googleOnly(r) == r.g.pc = "ok" /\ r.ms.pc \in {"ok", "failed"}
\* await Promise.all(tasks) resolves
BothOk(r) == r.ms.pc = "ok" /\ r.g.pc = "ok"

\* catch (e) { setErr(e.message) } finally { setLoading(false) }; a fetcher
\* still running goes on without the refresh.
Caught(r, ui) ==
  [ui   |-> [ui EXCEPT !.err = FailedOne(r).err, !.loading = FALSE],
   left |-> IF Running(r.ms) \/ Running(r.g)
            THEN <<[r EXCEPT !.returned = TRUE]>> ELSE <<>>]

\* The continuation of refresh after its second await (the details).
SettleDetails(r, ui) ==
  IF BothOk(r)
  THEN [ui   |-> [ui EXCEPT !.events = sortedDetails(KeepPositive(r.ms.acc),
                                                     KeepPositive(r.g.acc)),
                            !.loading = FALSE],
        left |-> <<>>]
  ELSE IF AnyFailed(r) THEN Caught(r, ui)
  ELSE [ui |-> ui, left |-> <<r>>]

\* The continuation of refresh after its first await (the busy fetchers).
SettleBusy(r, ui) ==
  IF BothOk(r)
  THEN LET ui1 == [ui EXCEPT !.busy = busyBlocks(r.ms.acc, r.g.acc)]
       IN  IF r.cap.detailsMode
           THEN SettleDetails([r EXCEPT !.phase = "details",
                                        !.ms = getMsToken(r.cap.msalApp),
                                        !.g = GoogleFetchStart(googleToken),
                                        !.pre = ui.busy], ui1)
           ELSE [ui   |-> [ui1 EXCEPT !.events = <<>>, !.loading = FALSE],
                 left |-> <<>>]
  ELSE IF AnyFailed(r) THEN Caught(r, ui)
  ELSE [ui |-> ui, left |-> <<r>>]

\* What the step of a fetcher of r leads to.
Settle(r, ui) ==
  IF r.returned
  THEN [ui |-> ui, left |-> IF Running(r.ms) \/ Running(r.g) THEN <<r>> ELSE <<>>]
  ELSE IF r.phase = "busy" THEN SettleBusy(r, ui)
  ELSE SettleDetails(r, ui)

\* refresh() called with the closure cap, tok being googleTokenRef.current:
\* setLoading(true); setErr(null); both busy fetchers are started.
Started(cap, tok) ==
  Settle([cap |-> cap, phase |-> "busy", returned |-> FALSE,
          ms |-> getMsToken(cap.msalApp), g |-> GoogleFetchStart(tok),
          pre |-> <<>>],
         [Ui EXCEPT !.loading = TRUE, !.err = NoErr])


(***************************************************************************)
(* Derived: freeSlots (useMemo).                                           *)
(***************************************************************************)
\* Date.getDay() of day d: day 0 is a Monday
getDay(d) == (d + 1) % 7
DayOf(t) == t \div DayMin
\* const diff = d.getDate() - day + (day === 0 ? -6 : 1)
WeekStart(d) == d - getDay(d) + (IF getDay(d) = 0 THEN -6 ELSE 1)

HoursOf(d) ==
  IF useCustomWorkHours THEN customWorkHours[getDay(d)]
  ELSE [start |-> workStart, end |-> workEnd]

RECURSIVE Untag(_)
\* busy.map((b) => ({ start: b.start, end: b.end }))
Untag(s) ==
  IF s = <<>> THEN <<>> ELSE <<Interval(Head(s).start, Head(s).end)>> \o Untag(Tail(s))

\* The days freeSlots holds an entry for.
DerivedDays == IF view = "day" THEN {date} ELSE WeekStart(date)..(WeekStart(date) + 6)

\* The slots freeSlots holds for day d of DerivedDays.
freeSlots(d) ==
  LET merged == mergeIntervals(Untag(busy))
      hours  == HoursOf(d)
  IN  IF view = "day"
      THEN invertBusyToFree(merged, d, hours.start, hours.end, minSlot)
      ELSE LET dailyBusy == SelectSeqBy(merged, {b \in Range(merged) : DayOf(b.start) = d})
           IN  invertBusyToFree(dailyBusy, d, hours.start, hours.end, minSlot)

(***************************************************************************)
(* Init: the component after its first render.                             *)
(***************************************************************************)
AlgOff == algPc = "off" /\ algIn = [busy |-> <<>>, p |-> NoParams, objects |-> <<>>] /\ algOut = <<>>

\* No fetcher is called on its own.
FetchOff ==
  fetchCall = [phase |-> "busy", who |-> "ms", pc |-> "off", url |-> <<>>, acc |-> <<>>,
               err |-> NoErr, status |-> 0, retryAfter |-> Null, wait |-> 0,
               server |-> <<>>, dup |-> "last"]

\* A variant of reset that leaves the earlier timer pending.
ClearTimeout_none(timers, id) == timers

\* window.clearTimeout(timer)
ClearTimeout(timers, id) == {t \in timers : t.id # id}

\* window.setTimeout(() => panic(), 45 * 60 * 1000) called at minute `at`
SetTimeout(timers, id, at) == timers \cup {[id |-> id, due |-> at + InactivityMin]}

\* const reset = () => { if (timer) window.clearTimeout(timer); timer = ... }
\* as a function from the timers held to the timers held, id being fresh
Reset(timers, old, id, at) ==
  SetTimeout(IF old # 0 THEN ClearTimeout(timers, old) ELSE timers, id, at)

\* The inactivity effect has run on mount: reset() was called once.
TimerInit == now = 0 /\ timer = 1 /\ pending = Reset({}, 0, 1, 0)

\* The effects of the mount have run on an empty localStorage: the theme,
\* the display time zone, the source colours, the custom hours, their mode
\* and the saved views have been written.
StoreInit ==
  /\ savedViews = <<>> /\ selectedViewId = 0
  /\ localStorage =
       [k \in {"theme", "displayTimezone", "sourceColors", CUSTOM_HOURS_STORAGE_KEY,
               CUSTOM_HOURS_MODE_STORAGE_KEY, SAVED_VIEWS_STORAGE_KEY} |->
          CASE k = "theme" -> "light"
            [] k = "displayTimezone" -> "Europe/Oslo"
            [] k = "sourceColors" -> [google |-> "#0ea5e9", microsoft |-> "#6366f1"]
            [] k = CUSTOM_HOURS_STORAGE_KEY -> createDefaultCustomWorkHours
            [] k = CUSTOM_HOURS_MODE_STORAGE_KEY -> "false"
            [] k = SAVED_VIEWS_STORAGE_KEY -> <<>>]

AppInit ==
  /\ date = Today /\ view = "day" /\ detailsMode = FALSE
  /\ workStart = 8 /\ workEnd = 17 /\ minSlot = 30
  /\ useCustomWorkHours = FALSE
  /\ customWorkHours = createDefaultCustomWorkHours
  /\ msalApp = FALSE /\ msAccount = FALSE
  /\ googleReady = FALSE /\ googleConnected = FALSE /\ googleToken = Null
  /\ sessionStorage = {}
  /\ loginPending = FALSE /\ googlePending = FALSE
  /\ busy = <<>> /\ events = <<>> /\ loading = FALSE /\ err = NoErr
  /\ refreshes = <<>>
  /\ effectPending = TRUE          \* the refresh effect runs on mount
  /\ panicPc = "idle" /\ reloaded = FALSE
  /\ TimerInit
  /\ StoreInit

Init == AppInit /\ AlgOff /\ FetchOff

(***************************************************************************)
(* Actions.                                                                *)
(***************************************************************************)
Replace(i, left) ==
  SubSeq(refreshes, 1, i - 1) \o left \o SubSeq(refreshes, i + 1, Len(refreshes))

\* Fetcher `who` of refresh i has taken a step that made the refresh r1.
Continue(i, r1) ==
  LET out == Settle(r1, Ui)
  IN  /\ refreshes' = Replace(i, out.left)
      /\ busy' = out.ui.busy /\ events' = out.ui.events
      /\ err' = out.ui.err /\ loading' = out.ui.loading

\* The number of refresh() calls that may be in flight at a time; where the
\* overlap of refreshes is examined one more may run.
InFlight == IF algPc = "race" THEN MaxInFlight + 1 ELSE MaxInFlight

\* A variant in which a call of refresh() cancels the refreshes in flight.
CallRefresh_cancel(cap, tok) ==
  LET out == Started(cap, tok)
  IN  /\ Len(refreshes) < InFlight
      /\ refreshes' = out.left
      /\ busy' = out.ui.busy /\ events' = out.ui.events
      /\ err' = out.ui.err /\ loading' = out.ui.loading

\* A call of refresh() with closure cap.
CallRefresh(cap, tok) ==
  LET out == Started(cap, tok)
  IN  /\ Len(refreshes) < InFlight
      /\ refreshes' = refreshes \o out.left
      /\ busy' = out.ui.busy /\ events' = out.ui.events
      /\ err' = out.ui.err /\ loading' = out.ui.loading

\* (async () => { await app.initialize(); setMsalApp(app); ... })()
MsalInitDone ==
  /\ ~reloaded /\ ~msalApp
  /\ msalApp' = TRUE
  /\ IF "msal.account" \in sessionStorage
     THEN msAccount' = TRUE /\ effectPending' = TRUE
     ELSE UNCHANGED <<msAccount, effectPending>>
  /\ UNCHANGED <<algVars, fetchVars, timerVars, storeVars, cfgVars, googleReady, googleConnected, googleToken,
                 sessionStorage, loginPending, googlePending,
                 busy, events, loading, err, refreshes, panicVars>>

\* script.onload: the token client is created
GoogleScriptLoaded ==
  /\ ~reloaded /\ ~googleReady
  /\ googleReady' = TRUE
  /\ UNCHANGED <<algVars, fetchVars, timerVars, storeVars, cfgVars, msalApp, msAccount, googleConnected, googleToken,
                 sessionStorage, loginPending, googlePending, dataVars, panicVars>>

\* connectMicrosoft up to `await msalApp.loginPopup`
ConnectMicrosoft ==
  /\ ~reloaded /\ msalApp /\ ~loginPending
  /\ err' = NoErr
  /\ loginPending' = TRUE
  /\ UNCHANGED <<algVars, fetchVars, timerVars, storeVars, cfgVars, msalApp, msAccount, googleReady, googleConnected,
                 googleToken, sessionStorage, googlePending,
                 busy, events, loading, refreshes, effectPending, panicVars>>

\* loginPopup resolves (MSAL caches the account and its tokens) or rejects
LoginPopupSettles ==
  /\ ~reloaded /\ loginPending
  /\ loginPending' = FALSE
  /\ \E ok \in BOOLEAN :
       IF ok
       THEN /\ sessionStorage' = sessionStorage \cup MsalKeys
            /\ msAccount' = TRUE
            /\ effectPending' = TRUE
            /\ UNCHANGED err
       ELSE /\ err' = MsalErr("loginPopup")
            /\ UNCHANGED <<sessionStorage, msAccount, effectPending>>
  /\ UNCHANGED <<algVars, fetchVars, timerVars, storeVars, cfgVars, msalApp, googleReady, googleConnected, googleToken,
                 googlePending, busy, events, loading, refreshes, panicVars>>

\* A variant that asks for a token before the token client exists.
ConnectGoogle_unready ==
  /\ ~reloaded /\ ~googlePending
  /\ err' = NoErr /\ googlePending' = TRUE
  /\ UNCHANGED <<algVars, fetchVars, timerVars, storeVars, cfgVars, msalApp, msAccount, googleReady, googleConnected,
                 googleToken, sessionStorage, loginPending,
                 busy, events, loading, refreshes, effectPending, panicVars>>

\* connectGoogle
ConnectGoogle ==
  /\ ~reloaded /\ ~googlePending
  /\ IF ~googleReady
     THEN err' = GoogleErr("not ready") /\ UNCHANGED googlePending
     ELSE err' = NoErr /\ googlePending' = TRUE
  /\ UNCHANGED <<algVars, fetchVars, timerVars, storeVars, cfgVars, msalApp, msAccount, googleReady, googleConnected,
                 googleToken, sessionStorage, loginPending,
                 busy, events, loading, refreshes, effectPending, panicVars>>

\* The token client's callback, with an access_token: the token is kept in
\* the ref and refresh() of the first render's closure is called.
GoogleTokenArrives ==
  /\ ~reloaded /\ googlePending
  /\ googlePending' = FALSE
  /\ googleToken' = "gtok"
  /\ googleConnected' = TRUE
  /\ effectPending' = (effectPending \/ ~googleConnected)
  /\ CallRefresh(FirstRender, "gtok")
  /\ UNCHANGED <<algVars, fetchVars, timerVars, storeVars, cfgVars, msalApp, msAccount, googleReady,
                 sessionStorage, loginPending, panicVars>>

\* The token client's callback, without an access_token.
GoogleTokenRefused ==
  /\ ~reloaded /\ googlePending
  /\ googlePending' = FALSE
  /\ err' = GoogleErr("no access_token")
  /\ UNCHANGED <<algVars, fetchVars, timerVars, storeVars, cfgVars, msalApp, msAccount, googleReady, googleConnected,
                 googleToken, sessionStorage, loginPending,
                 busy, events, loading, refreshes, effectPending, panicVars>>

\* useEffect(() => { void refresh() }, [date, detailsMode, msAccount,
\* googleConnected, view])
EffectRun ==
  /\ ~reloaded /\ effectPending
  /\ effectPending' = FALSE
  /\ CallRefresh(Capture, googleToken)
  /\ UNCHANGED <<algVars, fetchVars, timerVars, storeVars, cfgVars, sessVars, panicVars>>

\* <button onClick={refresh}>
RefreshButton ==
  /\ ~reloaded
  /\ CallRefresh(Capture, googleToken)
  /\ UNCHANGED <<algVars, fetchVars, timerVars, storeVars, cfgVars, sessVars, effectPending, panicVars>>

\* onClick={() => setView(v)}
SetView ==
  /\ ~reloaded
  /\ \E v \in {"day", "week"} : v # view /\ view' = v
  /\ effectPending' = TRUE
  /\ UNCHANGED <<algVars, fetchVars, timerVars, storeVars, date, detailsMode, workStart, workEnd, minSlot,
                 useCustomWorkHours, customWorkHours, sessVars,
                 busy, events, loading, err, refreshes, panicVars>>

\* The dates the date field is set to.
DateChoices == {Today, Today + 1}

\* onChange={(e) => setDate(e.target.value)}
SetDate ==
  /\ ~reloaded
  /\ \E d \in DateChoices : d # date /\ date' = d
  /\ effectPending' = TRUE
  /\ UNCHANGED <<algVars, fetchVars, timerVars, storeVars, view, detailsMode, workStart, workEnd, minSlot,
                 useCustomWorkHours, customWorkHours, sessVars,
                 busy, events, loading, err, refreshes, panicVars>>

\* onChange={(e) => setDetailsMode(e.target.checked)}
SetDetailsMode ==
  /\ ~reloaded
  /\ detailsMode' = ~detailsMode
  /\ effectPending' = TRUE
  /\ UNCHANGED <<algVars, fetchVars, timerVars, storeVars, date, view, workStart, workEnd, minSlot,
                 useCustomWorkHours, customWorkHours, sessVars,
                 busy, events, loading, err, refreshes, panicVars>>

\* acquireTokenSilent of refresh i settles: its token is used, or the catch
\* calls acquireTokenPopup.
SilentSettles ==
  /\ ~reloaded
  /\ \E i \in 1..Len(refreshes), ok \in BOOLEAN :
       LET r == refreshes[i] IN
       /\ r.ms.pc = "token" /\ r.ms.silent = "pending"
       /\ Continue(i, [r EXCEPT !.ms =
            IF ok THEN [@ EXCEPT !.silent = "ok", !.token = "tok",
                                 !.pc = "request", !.sent = TRUE]
            ELSE [@ EXCEPT !.silent = "failed", !.popup = "pending"]])
  /\ UNCHANGED <<algVars, fetchVars, timerVars, storeVars, cfgVars, sessVars, effectPending, panicVars>>

\* A variant in which getMsToken catches the rejection and returns null.
PopupRejected_null(f) == [f EXCEPT !.popup = "failed", !.pc = "ok", !.token = Null]

\* `return (await msalApp.acquireTokenPopup(...)).accessToken` inside the catch
\* of getMsToken: a rejection is not caught, so getMsToken and the fetcher
\* that awaits it throw.
PopupRejected(f) ==
  [f EXCEPT !.popup = "failed", !.pc = "failed", !.err = MsalErr("acquireTokenPopup")]

\* acquireTokenPopup of refresh i settles: its token is used (and cached by
\* MSAL), or getMsToken throws.
PopupSettles ==
  /\ ~reloaded
  /\ \E i \in 1..Len(refreshes), ok \in BOOLEAN :
       LET r == refreshes[i] IN
       /\ r.ms.pc = "token" /\ r.ms.popup = "pending"
       /\ Continue(i, [r EXCEPT !.ms =
            IF ok THEN [@ EXCEPT !.popup = "ok", !.token = "tok",
                                 !.pc = "request", !.sent = TRUE]
            ELSE PopupRejected(@)])
       /\ sessionStorage' = IF ok THEN sessionStorage \cup MsalKeys ELSE sessionStorage
  /\ UNCHANGED <<algVars, fetchVars, timerVars, storeVars, cfgVars, msalApp, msAccount, googleReady, googleConnected,
                 googleToken, loginPending, googlePending, effectPending, panicVars>>

\* One turn of a fetcher's loop: the response to its request.
AfterResponse(f, phase, who, status, page) ==
  IF status \in {429, 503} THEN [f EXCEPT !.pc = "backoff"]
  ELSE IF status # 200
  THEN [f EXCEPT !.pc = "failed", !.err = HttpErr(Endpoint(phase, who), status)]
  ELSE [f EXCEPT !.pc = "ok", !.acc = f.acc \o PageItems(phase, who, page)]

\* A provider answers the request of fetcher `who` of refresh i.
ProviderRespondsTo(i, who) ==
  /\ ~reloaded /\ i \in 1..Len(refreshes)
  /\ \E status \in HttpStatuses, page \in PagesOf(Calendar(who)) :
       LET r == refreshes[i] IN
       /\ r[who].pc = "request"
       /\ status # 200 => page = <<>>
       /\ Continue(i, [r EXCEPT ![who] = AfterResponse(r[who], r.phase, who, status, page)])
  /\ UNCHANGED <<algVars, fetchVars, timerVars, storeVars, cfgVars, sessVars, effectPending, panicVars>>

\* A provider answers the request of a fetcher of a refresh.
ProviderResponds ==
  \E i \in 1..Len(refreshes), who \in {"ms", "g"} : ProviderRespondsTo(i, who)

\* A variant with a ceiling: the fetcher gives up after its sleep.
AfterBackoff_giveUp(f, phase, who) ==
  [f EXCEPT !.pc = "failed", !.err = HttpErr(Endpoint(phase, who), 429)]

\* `await backoff(resp); continue;`: the same request is sent again
AfterBackoff(f, phase, who) == [f EXCEPT !.pc = "request"]

\* await backoff(resp) returns in fetcher `who` of refresh i
BackoffElapsesOf(i, who) ==
  /\ ~reloaded /\ i \in 1..Len(refreshes)
  /\ LET r == refreshes[i] IN
     /\ r[who].pc = "backoff"
     /\ Continue(i, [r EXCEPT ![who] = AfterBackoff(r[who], r.phase, who)])
  /\ UNCHANGED <<algVars, fetchVars, timerVars, storeVars, cfgVars, sessVars, effectPending, panicVars>>

\* await backoff(resp) returns in a fetcher of a refresh
BackoffElapses ==
  \E i \in 1..Len(refreshes), who \in {"ms", "g"} : BackoffElapsesOf(i, who)

\* panic after its logout: sessionStorage.clear(); setMsAccount(null); then
\* the revocation is awaited, or without a Google token the rest runs at once.
PanicClears ==
  /\ sessionStorage' = {}
  /\ msAccount' = FALSE
  /\ effectPending' = (effectPending \/ msAccount)
  /\ IF googleToken # Null
     THEN panicPc' = "revoke" /\ UNCHANGED <<googleToken, googleConnected, reloaded>>
     ELSE /\ googleToken' = Null /\ googleConnected' = FALSE
          /\ panicPc' = "idle" /\ reloaded' = TRUE

\* onClick={panic}: the closure of the current render
PanicButton ==
  /\ ~reloaded /\ panicPc = "idle"
  /\ IF msalApp
     THEN /\ panicPc' = "logout"
          /\ UNCHANGED <<sessionStorage, msAccount, effectPending, googleToken,
                         googleConnected, reloaded>>
     ELSE PanicClears
  /\ UNCHANGED <<algVars, fetchVars, timerVars, storeVars, cfgVars, msalApp, googleReady, loginPending, googlePending,
                 busy, events, loading, err, refreshes>>

\* setTimeout(() => panic(), 45 min): the closure of the first render, whose
\* msalApp is null
PanicTimeout ==
  /\ ~reloaded /\ panicPc = "idle"
  /\ \E t \in pending : t.due <= now /\ pending' = pending \ {t}
  /\ PanicClears
  /\ UNCHANGED <<algVars, fetchVars, now, timer, storeVars, cfgVars, msalApp, googleReady, loginPending, googlePending,
                 busy, events, loading, err, refreshes>>

\* A mousemove, keydown, click or visibilitychange event: reset().  The click
\* on a control is such a step, followed by the step of the control's handler.
UserInput ==
  /\ ~reloaded /\ timer < MaxTimerId
  /\ \E ev \in {"mousemove", "keydown", "click", "visibilitychange"} :
       /\ timer' = timer + 1
       /\ pending' = Reset(pending, timer, timer + 1, now)
  /\ UNCHANGED <<algVars, fetchVars, now, storeVars, cfgVars, sessVars, dataVars, panicVars>>

\* TickMin minutes pass; a timer that is due fires before more time
\* passes.
Tick ==
  /\ ~reloaded /\ now < MaxTicks * TickMin
  /\ \A t \in pending : t.due > now
  /\ now' = now + TickMin
  /\ UNCHANGED <<algVars, fetchVars, timer, pending, storeVars, cfgVars, sessVars, dataVars, panicVars>>

\* onChange of the uniform start field
SetWorkStart ==
  /\ ~reloaded
  /\ \E text \in HourTexts : workStart' = ParseInt(text, "8")
  /\ UNCHANGED <<algVars, fetchVars, timerVars, storeVars,
                 date, view, detailsMode, workEnd, minSlot, useCustomWorkHours, customWorkHours,
                 sessVars, dataVars, panicVars>>

\* What the user leaves in the minimum-gap field.
MinSlotTexts == {"", "7"}

\* A variant in which the minimum gap is a dep of the refresh effect.
SetMinSlot_refreshing ==
  /\ ~reloaded
  /\ \E text \in MinSlotTexts : minSlot' = ParseInt(text, "30")
  /\ effectPending' = TRUE
  /\ UNCHANGED <<algVars, fetchVars, timerVars, storeVars,
                 date, view, detailsMode, workStart, workEnd, useCustomWorkHours, customWorkHours,
                 sessVars, busy, events, loading, err, refreshes, panicVars>>

\* onChange={(e) => setMinSlot(parseInt(e.target.value || "30", 10))}
SetMinSlot ==
  /\ ~reloaded
  /\ \E text \in MinSlotTexts : minSlot' = ParseInt(text, "30")
  /\ UNCHANGED <<algVars, fetchVars, timerVars, storeVars,
                 date, view, detailsMode, workStart, workEnd, useCustomWorkHours, customWorkHours,
                 sessVars, dataVars, panicVars>>

\* onChange of the uniform end field
SetWorkEnd ==
  /\ ~reloaded
  /\ \E text \in HourTexts : workEnd' = ParseInt(text, "17")
  /\ UNCHANGED <<algVars, fetchVars, timerVars, storeVars,
                 date, view, detailsMode, workStart, minSlot, useCustomWorkHours, customWorkHours,
                 sessVars, dataVars, panicVars>>

\* setCustomWorkHours(next) and the effect that stores the custom hours
StoreCustomWorkHours(next) ==
  /\ customWorkHours' = next
  /\ localStorage' = SetItem(localStorage, CUSTOM_HOURS_STORAGE_KEY, next)

\* The updater of handleCustomWorkHourChange: the edited bound is set and,
\* when the day would end before it starts, the other bound follows it.
CustomWorkHourSet(prev, day, field, clamped) ==
  LET edited == [prev[day] EXCEPT ![field] = clamped]
      snapped == IF edited.end < edited.start
                 THEN [start |-> clamped, end |-> clamped]
                 ELSE edited
  IN  [prev EXCEPT ![day] = snapped]

\* The days whose per-day fields the user edits.
EditedDays == {1, 6}

\* handleCustomWorkHourChange(day, field, value); the per-day fields are
\* rendered with custom hours on
HandleCustomWorkHourChange ==
  /\ ~reloaded /\ useCustomWorkHours
  /\ \E day \in EditedDays, field \in {"start", "end"}, value \in HourTexts :
       LET parsed == NumberOf(value) IN
       IF parsed.nan
       THEN UNCHANGED <<customWorkHours, localStorage>>
       ELSE StoreCustomWorkHours(
              CustomWorkHourSet(customWorkHours, day, field, clampHour(parsed.value)))
  /\ UNCHANGED <<algVars, fetchVars, timerVars, savedViews, selectedViewId,
                 date, view, detailsMode, workStart, workEnd, minSlot, useCustomWorkHours,
                 sessVars, dataVars, panicVars>>

\* onClick={() => setUseCustomWorkHours((prev) => !prev)}, and the effect
\* that stores the mode
ToggleCustomWorkHours ==
  /\ ~reloaded
  /\ useCustomWorkHours' = ~useCustomWorkHours
  /\ localStorage' = SetItem(localStorage, CUSTOM_HOURS_MODE_STORAGE_KEY,
                             IF ~useCustomWorkHours THEN "true" ELSE "false")
  /\ UNCHANGED <<algVars, fetchVars, timerVars, savedViews, selectedViewId,
                 date, view, detailsMode, workStart, workEnd, minSlot, customWorkHours,
                 sessVars, dataVars, panicVars>>

\* copyStandardHoursToCustom; its button is rendered with custom hours on
CopyStandardHoursToCustom ==
  /\ ~reloaded /\ useCustomWorkHours
  /\ StoreCustomWorkHours(createUniformWorkHours(workStart, workEnd))
  /\ UNCHANGED <<algVars, fetchVars, timerVars, savedViews, selectedViewId,
                 date, view, detailsMode, workStart, workEnd, minSlot, useCustomWorkHours,
                 sessVars, dataVars, panicVars>>

\* The names the user may have typed into the name field.
ViewNames == {"", "a"}

\* The id of a new saved view: one that no saved view has.
FreshViewId == CHOOSE n \in 1..(Len(savedViews) + 1) : \A i \in 1..Len(savedViews) : savedViews[i].id # n

\* A variant that keeps the Google token with the snapshot.
Snapshot_withToken(name) ==
  [id |-> FreshViewId, name |-> googleToken, date |-> date, view |-> view,
   detailsMode |-> detailsMode, minSlot |-> minSlot,
   workStart |-> workStart, workEnd |-> workEnd,
   useCustomWorkHours |-> useCustomWorkHours,
   customWorkHours |-> customWorkHours]

\* const snapshot: SavedView = { ... } of handleSaveView
Snapshot(name) ==
  [id |-> FreshViewId, name |-> name, date |-> date, view |-> view,
   detailsMode |-> detailsMode, minSlot |-> minSlot,
   workStart |-> workStart, workEnd |-> workEnd,
   useCustomWorkHours |-> useCustomWorkHours,
   customWorkHours |-> IF useCustomWorkHours THEN cloneWorkHours(customWorkHours)
                       ELSE createUniformWorkHours(workStart, workEnd)]

\* setSavedViews(next) and the effect that stores the saved views
StoreSavedViews(next) ==
  /\ savedViews' = next
  /\ localStorage' = SetItem(localStorage, SAVED_VIEWS_STORAGE_KEY, next)

\* handleSaveView: nothing happens when the trimmed name is empty
HandleSaveView ==
  /\ ~reloaded /\ Len(savedViews) < MaxViews
  /\ \E name \in ViewNames :
       IF name = ""
       THEN UNCHANGED <<savedViews, selectedViewId, localStorage>>
       ELSE LET snapshot == Snapshot(name) IN
            /\ StoreSavedViews(Append(savedViews, snapshot))
            /\ selectedViewId' = snapshot.id
  /\ UNCHANGED <<algVars, fetchVars, timerVars, cfgVars, sessVars, dataVars, panicVars>>

\* handleDeleteSavedView
HandleDeleteSavedView ==
  /\ ~reloaded /\ selectedViewId # 0
  /\ StoreSavedViews(SelectSeqBy(savedViews, {v \in Range(savedViews) : v.id # selectedViewId}))
  /\ selectedViewId' = 0
  /\ UNCHANGED <<algVars, fetchVars, timerVars, cfgVars, sessVars, dataVars, panicVars>>

\* applySavedView(id), id picked in the select of the saved views; a render
\* that changes date, view or detailsMode makes the refresh effect due, and
\* the effects that store the mode and the custom hours run
ApplySavedView ==
  /\ ~reloaded
  /\ \E i \in 1..Len(savedViews) :
       LET viewToApply == savedViews[i] IN
       /\ selectedViewId' = viewToApply.id
       /\ date' = viewToApply.date
       /\ view' = viewToApply.view
       /\ detailsMode' = viewToApply.detailsMode
       /\ minSlot' = viewToApply.minSlot
       /\ workStart' = viewToApply.workStart
       /\ workEnd' = viewToApply.workEnd
       /\ useCustomWorkHours' = viewToApply.useCustomWorkHours
       /\ customWorkHours' = normalizeWorkHours(viewToApply.customWorkHours)
       /\ localStorage' =
            SetItem(SetItem(localStorage, CUSTOM_HOURS_STORAGE_KEY,
                            normalizeWorkHours(viewToApply.customWorkHours)),
                    CUSTOM_HOURS_MODE_STORAGE_KEY,
                    IF viewToApply.useCustomWorkHours THEN "true" ELSE "false")
       /\ effectPending' = (effectPending \/ viewToApply.date # date
                             \/ viewToApply.view # view
                             \/ viewToApply.detailsMode # detailsMode)
  /\ UNCHANGED <<algVars, fetchVars, timerVars, savedViews, sessVars,
                 busy, events, loading, err, refreshes, panicVars>>

\* msalApp.logoutPopup() resolves or rejects; `catch {}` either way
PanicLogoutSettles ==
  /\ ~reloaded /\ panicPc = "logout"
  /\ PanicClears
  /\ UNCHANGED <<algVars, fetchVars, timerVars, storeVars, cfgVars, msalApp, googleReady, loginPending, googlePending,
                 busy, events, loading, err, refreshes>>

\* A variant that drops the token and leaves googleConnected as it is.
PanicRevokeSettles_flagKept ==
  /\ ~reloaded /\ panicPc = "revoke"
  /\ googleToken' = Null
  /\ panicPc' = "idle"
  /\ reloaded' = TRUE
  /\ UNCHANGED <<algVars, fetchVars, timerVars, storeVars, cfgVars, msalApp, msAccount, googleReady, sessionStorage,
                 googleConnected, loginPending, googlePending, dataVars>>

\* the revocation fetch resolves or rejects; `catch {}` either way, then
\* googleTokenRef.current = null; setGoogleConnected(false); reload
PanicRevokeSettles ==
  /\ ~reloaded /\ panicPc = "revoke"
  /\ googleToken' = Null
  /\ googleConnected' = FALSE
  /\ panicPc' = "idle"
  /\ reloaded' = TRUE
  /\ UNCHANGED <<algVars, fetchVars, timerVars, storeVars, cfgVars, msalApp, msAccount, googleReady, sessionStorage,
                 loginPending, googlePending, dataVars>>

Next ==
  \/ MsalInitDone \/ GoogleScriptLoaded
  \/ ConnectMicrosoft \/ LoginPopupSettles
  \/ ConnectGoogle \/ GoogleTokenArrives \/ GoogleTokenRefused
  \/ EffectRun \/ RefreshButton \/ SetDate \/ SetView \/ SetDetailsMode
  \/ SilentSettles \/ PopupSettles \/ ProviderResponds \/ BackoffElapses
  \/ SetMinSlot
  \/ PanicButton \/ PanicTimeout \/ PanicLogoutSettles \/ PanicRevokeSettles
  \/ UserInput \/ Tick
  \/ ToggleCustomWorkHours \/ CopyStandardHoursToCustom
  \/ HandleSaveView \/ HandleDeleteSavedView \/ ApplySavedView
  \/ SetWorkStart \/ SetWorkEnd \/ HandleCustomWorkHourChange

Spec == Init /\ [][Next]_vars

(***************************************************************************)
(* SpecRefresh: from the mount, connecting the providers and refreshing    *)
(* the busy blocks (details off, day view, nobody panics).                 *)
(***************************************************************************)
RefreshNext ==
  \/ MsalInitDone \/ GoogleScriptLoaded
  \/ ConnectMicrosoft \/ LoginPopupSettles
  \/ ConnectGoogle \/ GoogleTokenArrives \/ GoogleTokenRefused
  \/ EffectRun \/ RefreshButton
  \/ SilentSettles \/ PopupSettles \/ ProviderResponds \/ BackoffElapses

SpecRefresh == Init /\ [][RefreshNext]_vars

(***************************************************************************)
(* SpecMicrosoft: from the mount, Microsoft alone is connected; refreshes  *)
(* with and without details.                                               *)
(***************************************************************************)
MicrosoftNext ==
  \/ MsalInitDone
  \/ ConnectMicrosoft \/ LoginPopupSettles
  \/ EffectRun \/ RefreshButton \/ SetDetailsMode
  \/ SilentSettles \/ PopupSettles \/ ProviderResponds \/ BackoffElapses

SpecMicrosoft == Init /\ [][MicrosoftNext]_vars

(***************************************************************************)
(* SpecDetails: both providers are connected and the user switches the     *)
(* view and the details mode and refreshes.                                *)
(***************************************************************************)
\* Both providers connected, every refresh so far returned empty lists, and
\* a render has just changed a dep of the refresh effect.
ConnectedState(details) ==
  /\ date = Today /\ view = "day" /\ detailsMode = details
  /\ workStart = 8 /\ workEnd = 17 /\ minSlot = 30
  /\ useCustomWorkHours = FALSE
  /\ customWorkHours = createDefaultCustomWorkHours
  /\ msalApp = TRUE /\ msAccount = TRUE
  /\ googleReady = TRUE /\ googleConnected = TRUE /\ googleToken = "gtok"
  /\ sessionStorage = MsalKeys
  /\ loginPending = FALSE /\ googlePending = FALSE
  /\ busy = <<>> /\ events = <<>> /\ loading = FALSE /\ err = NoErr
  /\ refreshes = <<>>
  /\ effectPending = TRUE
  /\ panicPc = "idle" /\ reloaded = FALSE
  /\ TimerInit
  /\ StoreInit

ConnectedInit == ConnectedState(FALSE)

DetailsNext ==
  \/ EffectRun \/ RefreshButton \/ SetView \/ SetDetailsMode
  \/ SilentSettles \/ PopupSettles \/ ProviderResponds \/ BackoffElapses

DetailsInit == ConnectedInit /\ AlgOff /\ FetchOff

SpecDetails == DetailsInit /\ [][DetailsNext]_vars

(***************************************************************************)
(* SpecRace: from the mount, Google is connected and the user switches the *)
(* view and the details mode while refreshes overlap.                      *)
(***************************************************************************)
RaceInit ==
  /\ AppInit /\ FetchOff
  /\ algPc = "race" /\ algIn = [busy |-> <<>>, p |-> NoParams, objects |-> <<>>] /\ algOut = <<>>

RaceNext ==
  \/ GoogleScriptLoaded \/ ConnectGoogle \/ GoogleTokenArrives
  \/ EffectRun \/ SetView \/ SetDetailsMode
  \/ ProviderResponds \/ BackoffElapses

SpecRace == RaceInit /\ [][RaceNext]_vars

(***************************************************************************)
(* SpecEffect: from the mount, the user connects Google and changes the    *)
(* selection, the minimum gap and the use of custom hours.                 *)
(***************************************************************************)
EffectNext ==
  \/ GoogleScriptLoaded
  \/ ConnectGoogle \/ GoogleTokenArrives
  \/ EffectRun \/ SetDate \/ SetView \/ SetDetailsMode
  \/ SetMinSlot \/ ToggleCustomWorkHours
  \/ ProviderResponds \/ BackoffElapses

SpecEffect == Init /\ [][EffectNext]_vars

(***************************************************************************)
(* SpecPanic: from the mount, connecting, refreshing and the panic.        *)
(***************************************************************************)
(* SpecCommit: both providers are connected and the details mode is on or  *)
(* off; the effect runs one refresh and the providers answer it.           *)
(***************************************************************************)
CommitInit == (\E details \in BOOLEAN : ConnectedState(details)) /\ AlgOff /\ FetchOff

CommitNext ==
  \/ EffectRun
  \/ SilentSettles \/ PopupSettles \/ ProviderResponds \/ BackoffElapses

SpecCommit == CommitInit /\ [][CommitNext]_vars

(***************************************************************************)
(* SpecGoogle: from the mount, Google alone is connected, refused,         *)
(* refreshed and torn down by the panic button.                            *)
(***************************************************************************)
GoogleNext ==
  \/ GoogleScriptLoaded
  \/ ConnectGoogle \/ GoogleTokenArrives \/ GoogleTokenRefused
  \/ EffectRun \/ RefreshButton
  \/ ProviderResponds \/ BackoffElapses
  \/ PanicButton \/ PanicRevokeSettles

SpecGoogle == Init /\ [][GoogleNext]_vars

(***************************************************************************)
PanicNext ==
  \/ MsalInitDone \/ GoogleScriptLoaded
  \/ ConnectMicrosoft \/ LoginPopupSettles
  \/ ConnectGoogle \/ GoogleTokenArrives
  \/ EffectRun
  \/ SilentSettles \/ PopupSettles \/ ProviderResponds
  \/ PanicButton \/ PanicTimeout \/ PanicLogoutSettles \/ PanicRevokeSettles
  \/ Tick

SpecPanic == Init /\ [][PanicNext]_vars

(***************************************************************************)
(* SpecTimer: from the mount, the user's input events, the clock, the      *)
(* inactivity timer and the panic.                                         *)
(***************************************************************************)
TimerNext ==
  \/ MsalInitDone
  \/ UserInput \/ Tick
  \/ PanicButton \/ PanicTimeout \/ PanicLogoutSettles

SpecTimer == Init /\ [][TimerNext]_vars

(***************************************************************************)
(* SpecStorage: from the mount, both providers are connected while the     *)
(* user changes what the component keeps in localStorage.                  *)
(***************************************************************************)
StorageNext ==
  \/ MsalInitDone \/ GoogleScriptLoaded
  \/ ConnectMicrosoft \/ LoginPopupSettles
  \/ ConnectGoogle \/ GoogleTokenArrives
  \/ ToggleCustomWorkHours \/ CopyStandardHoursToCustom
  \/ HandleSaveView \/ HandleDeleteSavedView \/ ApplySavedView

SpecStorage == Init /\ [][StorageNext]_vars

(***************************************************************************)
(* SpecHours: the user edits the work hours.                               *)
(***************************************************************************)
HoursNext ==
  \/ SetWorkStart \/ SetWorkEnd
  \/ ToggleCustomWorkHours \/ HandleCustomWorkHourChange
  \/ CopyStandardHoursToCustom

SpecHours == Init /\ [][HoursNext]_vars

(***************************************************************************)
(* SpecThrottle: both providers are connected and the refresh of the mount *)
(* runs while the user keeps using the page; every token request settles,  *)
(* every request is answered and every backoff ends.                       *)
(***************************************************************************)
ThrottleNext ==
  \/ EffectRun
  \/ SilentSettles \/ PopupSettles \/ ProviderResponds \/ BackoffElapses
  \/ UserInput

ThrottleFairness ==
  /\ WF_vars(SilentSettles) /\ WF_vars(PopupSettles)
  /\ \A who \in {"ms", "g"} :
       WF_vars(ProviderRespondsTo(1, who)) /\ WF_vars(BackoffElapsesOf(1, who))

SpecThrottle == DetailsInit /\ [][ThrottleNext]_vars /\ ThrottleFairness

(***************************************************************************)
(* SpecFetch: one fetcher, holding its token, against a provider whose     *)
(* listing is cut into pages.                                              *)
(*   url:    the continuation tokens the request URL carries, in the order *)
(*           they stand in it; <<>> is the first URL                       *)
(*   status: the status of the last response                               *)
(*   retryAfter: the Retry-After header of a 429/503 response              *)
(*   wait:   the milliseconds the last backoff slept                       *)
(*   server: the pages of the listing; page n is followed by page n + 1    *)
(*   dup:    which of several pageToken parameters the provider obeys      *)
(***************************************************************************)
\* The values Graph gives showAs, and none.
GraphShowAs == {"free", "tentative", "busy", "oof", "workingElsewhere", "unknown", Absent}

\* The entries of calendarView ($select=start,end,showAs,sensitivity): one
\* hour-long entry of every status, and a busy entry of no and of negative
\* length.
GraphBusyEntries ==
  {[start |-> AtHour(0, 9), end |-> AtHour(0, 10), showAs |-> a] : a \in GraphShowAs}
  \cup {[start |-> AtHour(0, 10), end |-> AtHour(0, 10), showAs |-> "busy"],
        [start |-> AtHour(0, 11), end |-> AtHour(0, 10), showAs |-> "busy"]}

\* data.calendars.primary.busy of freeBusy
GoogleBusyEntries ==
  {[start |-> AtHour(0, 9), end |-> AtHour(0, 10)],
   [start |-> AtHour(0, 10), end |-> AtHour(0, 10)],
   [start |-> AtHour(0, 11), end |-> AtHour(0, 10)]}

\* The entries of calendarView with subject and location.
GraphDetailEntries ==
  GraphCalendar
  \cup {[start |-> AtHour(0, 9), end |-> AtHour(0, 10), showAs |-> "busy",
         sensitivity |-> "normal", subject |-> "s2", location |-> "l3"],
        [start |-> AtHour(0, 10), end |-> AtHour(0, 10), showAs |-> "busy",
         sensitivity |-> "normal", subject |-> "s3", location |-> "l3"]}

\* The items of events.list.
GoogleDetailEntries ==
  GoogleCalendar
  \cup {[start |-> AtHour(0, 11), end |-> AtHour(0, 12), visibility |-> "default",
         summary |-> "g2", location |-> "l4"],
        [start |-> AtHour(0, 10), end |-> AtHour(0, 10), visibility |-> "default",
         summary |-> "g3", location |-> "l4"]}

Entries(phase, who) ==
  IF phase = "busy"
  THEN IF who = "ms" THEN GraphBusyEntries ELSE GoogleBusyEntries
  ELSE IF who = "ms" THEN GraphDetailEntries ELSE GoogleDetailEntries

\* The entries of the listings of several pages: of calendarView a busy and
\* a free hour and a busy entry of no length.
PagedEntries(phase, who) ==
  IF phase = "busy" /\ who = "ms"
  THEN {e \in GraphBusyEntries : e.showAs \in {"busy", "free"} /\ e.end >= e.start}
  ELSE Entries(phase, who)

\* The listings: every listing of one page, and (freeBusy answers in one
\* response) the listings of 2..MaxPages pages.
Servers(phase, who) ==
  LET len == IF phase = "busy" /\ who = "g" THEN 1 ELSE MaxPages
  IN  [1..1 -> PagesOf(Entries(phase, who))]
      \cup UNION {[1..n -> PagesOf(PagedEntries(phase, who))] : n \in 2..len}

\* Only events.list is sent URLs with several pageToken parameters.
DupModes(phase, who) ==
  IF phase = "details" /\ who = "g" THEN {"first", "last"} ELSE {"last"}

\* The page a URL asks for.
PageAsked(url, dup) ==
  IF url = <<>> THEN 1
  ELSE IF dup = "first" THEN url[1] ELSE url[Len(url)]

\* @odata.nextLink / nextPageToken of page n: 0 when the page is the last
NextOf(server, n) == IF n < Len(server) THEN n + 1 ELSE 0

\* resp.headers.get("Retry-After"): none, seconds, or an HTTP date
RetryAfterHeaders == {Null, "0", "2", "Wed, 21 Oct 2015 07:28:00 GMT"}

\* Math.random(), in thousandths: a number in [0, 1)
Randoms == {0, 500, 999}

\* A variant that does not read the header.
backoff_noHeader(retryAfter, baseMs, capMs, random) ==
  Min((baseMs * (1000 + random * 2)) \div 1000, capMs)

\* backoff(resp, baseMs, capMs): the milliseconds it sleeps
backoff(retryAfter, baseMs, capMs, random) ==
  IF retryAfter \notin {Null, ""} /\ ~NumberOf(retryAfter).nan
  THEN NumberOf(retryAfter).value * 1000 + random
  ELSE Min((baseMs * (1000 + random * 2)) \div 1000, capMs)

\* The defaults of backoff's parameters.
DefaultBaseMs == 1000
DefaultCapMs == 8000

\* What the fetcher returns when its loop ends.
Returned(phase, items) == IF phase = "busy" THEN items ELSE KeepPositive(items)

\* A variant that sleeps and tries again on every status but 200.
FetchStep_retryAll(f, status, retryAfter, random) ==
  IF status # 200
  THEN [f EXCEPT !.pc = "backoff", !.status = status, !.retryAfter = retryAfter,
                 !.wait = backoff(retryAfter, DefaultBaseMs, DefaultCapMs, random)]
  ELSE f

\* One turn of the loop of a fetcher: the response to its request.
FetchStep(f, status, retryAfter, random) ==
  IF status \in {429, 503}
  THEN [f EXCEPT !.pc = "backoff", !.status = status, !.retryAfter = retryAfter,
                 !.wait = backoff(retryAfter, DefaultBaseMs, DefaultCapMs, random)]
  ELSE IF status # 200
  THEN [f EXCEPT !.pc = "failed", !.status = status,
                 !.err = HttpErr(Endpoint(f.phase, f.who), status)]
  ELSE LET n == PageAsked(f.url, f.dup)
           items == f.acc \o PageItems(f.phase, f.who, f.server[n])
           next == NextOf(f.server, n)
       IN  IF next = 0 \/ (f.phase = "busy" /\ f.who = "g")
           THEN [f EXCEPT !.pc = "ok", !.status = 200,
                          !.acc = Returned(f.phase, items)]
           ELSE [f EXCEPT !.status = 200, !.acc = items,
                          !.url = IF f.who = "ms" THEN <<next>> ELSE Append(f.url, next)]

\* The fetcher at its first fetch().
FetchStart(phase, who, server, dup) ==
  [phase |-> phase, who |-> who, pc |-> "request", url |-> <<>>, acc |-> <<>>,
   err |-> NoErr, status |-> 0, retryAfter |-> Null, wait |-> 0,
   server |-> server, dup |-> dup]

FetchInit ==
  /\ AppInit /\ AlgOff
  /\ \E phase \in {"busy", "details"}, who \in {"ms", "g"} :
       \E server \in Servers(phase, who), dup \in DupModes(phase, who) :
         fetchCall = FetchStart(phase, who, server, dup)

\* The provider answers the request; a URL of more than MaxPages tokens is
\* not followed further.
FetchResponds ==
  /\ fetchCall.pc = "request" /\ Len(fetchCall.url) <= MaxPages
  /\ \E status \in HttpStatuses, retryAfter \in RetryAfterHeaders, random \in Randoms :
       /\ status \notin {429, 503} => retryAfter = Null /\ random = 0
       /\ fetchCall' = FetchStep(fetchCall, status, retryAfter, random)
  /\ UNCHANGED <<algVars, appVars>>

\* await backoff(resp) returns; `continue` drops resp and sends the same
\* request again
FetchBackoffElapses ==
  /\ fetchCall.pc = "backoff"
  /\ fetchCall' = [fetchCall EXCEPT !.pc = "request", !.status = 0,
                                   !.retryAfter = Null, !.wait = 0]
  /\ UNCHANGED <<algVars, appVars>>

FetchNext == FetchResponds \/ FetchBackoffElapses

SpecFetch == FetchInit /\ [][FetchNext]_vars

(***************************************************************************)
(* SpecAlg: the interval algebra applied to every bounded input.           *)
(***************************************************************************)
\* Half-hour instants of the hours 0..MaxHour of day 0.
TimeGrid == {m \in 0..(MaxHour * MinPerHour) : m % (MinPerHour \div 2) = 0}
GridIntervals == {i \in [start : TimeGrid, end : TimeGrid] : i.end > i.start}
RECURSIVE SeqsUpTo(_, _)
SeqsUpTo(S, n) ==
  IF n = 0 THEN {<<>>}
  ELSE LET shorter == SeqsUpTo(S, n - 1)
       IN  shorter \cup {Append(s, x) : s \in {t \in shorter : Len(t) = n - 1}, x \in S}
WorkHourChoices == 0..MaxHour
MinMinutesChoices == {0, MinPerHour \div 2, MinPerHour}

AlgInit ==
  /\ AppInit /\ FetchOff
  /\ algPc = "input"
  /\ algIn \in {[busy |-> b, p |-> NoParams, objects |-> b] : b \in SeqsUpTo(GridIntervals, MaxLen)}
  /\ algOut = <<>>

ApplyMerge ==
  /\ algPc = "input"
  /\ algPc' = "merged"
  /\ algOut' = mergeIntervals(algIn.busy)
  /\ algIn' = [algIn EXCEPT !.objects = InputAfterMerge(algIn.busy)]
  /\ UNCHANGED <<fetchVars, appVars>>

ApplyClamp ==
  /\ algPc = "input"
  /\ \E ws \in WorkHourChoices, we \in WorkHourChoices :
       /\ algIn' = [algIn EXCEPT !.p = [workStart |-> ws, workEnd |-> we, minMinutes |-> 0],
                                 !.objects = InputAfterClamp(algIn.busy)]
       /\ algOut' = clampToWorkday(algIn.busy, 0, ws, we)
  /\ algPc' = "clamped"
  /\ UNCHANGED <<fetchVars, appVars>>

ApplyInvert ==
  /\ algPc = "input"
  /\ \E ws \in WorkHourChoices, we \in WorkHourChoices, mm \in MinMinutesChoices :
       /\ algIn' = [algIn EXCEPT !.p = [workStart |-> ws, workEnd |-> we, minMinutes |-> mm],
                                 !.objects = InputAfterInvert(algIn.busy)]
       /\ algOut' = invertBusyToFree(algIn.busy, 0, ws, we, mm)
  /\ algPc' = "inverted"
  /\ UNCHANGED <<fetchVars, appVars>>

AlgNext == ApplyMerge \/ ApplyClamp \/ ApplyInvert

(***************************************************************************)
(* SpecDates: the date functions applied to every date 0..MaxDate in       *)
(* browsers of several time zones.  An instant is its minutes since        *)
(* 00:00 UTC of day 0; 23:59:59 is taken as the last minute of the day.    *)
(***************************************************************************)
\* The browser's offset from UTC in minutes (local = UTC + offset), without
\* daylight saving: New York, UTC, Oslo, Auckland.
TzOffsets == {-300, 0, 60, 780}

\* Date.getDate()/getMonth()/getFullYear() of an instant: its local civil day
LocalDate(t, offset) == (t + offset + DayMin * 7) \div DayMin - 7
\* new Date("YYYY-MM-DD"): a date-only string is read as 00:00 UTC
ParseDateOnly(d) == d * DayMin
\* new Date(`${d}T00:00:00`), new Date(`${d}T23:59:59`): read as local time
ParseLocal(d, minuteOfDay, offset) == d * DayMin + minuteOfDay - offset
\* isoDate(d): d.toISOString().slice(0, 10), the UTC civil day of the instant
isoDate(t) == (t + DayMin * 7) \div DayMin - 7

\* dayBoundsISO(dateStr)
dayBoundsISO(dateStr, offset) ==
  [startISO |-> ParseLocal(dateStr, 0, offset),
   endISO   |-> ParseLocal(dateStr, DayMin - 1, offset)]

\* weekBoundsISO(dateStr): getDay and setDate work on the local civil day
\* and keep the local time of day; diff - getDate() days are added.
weekBoundsISO(dateStr, offset) ==
  LET d == ParseDateOnly(dateStr)
      day == getDay(LocalDate(d, offset))
      startOfWeek == d + ((IF day = 0 THEN -6 ELSE 1) - day) * DayMin
      endOfWeek == startOfWeek + 6 * DayMin
  IN  [startISO |-> ParseLocal(isoDate(startOfWeek), 0, offset),
       endISO   |-> ParseLocal(isoDate(endOfWeek), DayMin - 1, offset)]

DatesInit ==
  /\ AppInit /\ FetchOff
  /\ algPc = "input"
  /\ algIn \in {[busy |-> <<>>, p |-> [date |-> d, offset |-> o], objects |-> <<>>] :
                   d \in 0..MaxDate, o \in TzOffsets}
  /\ algOut = <<>>

ApplyWeekBounds ==
  /\ algPc = "input"
  /\ algPc' = "week"
  /\ algOut' = <<weekBoundsISO(algIn.p.date, algIn.p.offset)>>
  /\ UNCHANGED <<algIn, fetchVars, appVars>>

ApplyDayBounds ==
  /\ algPc = "input"
  /\ algPc' = "day"
  /\ algOut' = <<dayBoundsISO(algIn.p.date, algIn.p.offset)>>
  /\ UNCHANGED <<algIn, fetchVars, appVars>>

DatesNext == ApplyWeekBounds \/ ApplyDayBounds

SpecDates == DatesInit /\ [][DatesNext]_vars

SpecAlg == AlgInit /\ [][AlgNext]_vars

(***************************************************************************)
(* Claims on the interval algebra (SpecAlg).                               *)
(***************************************************************************)
HalfHour == MinPerHour \div 2
\* The half-hour cells [t, t + 30min) an interval covers.
Cells(i) == {t \in TimeGrid : i.start <= t /\ t < i.end}
CellsOf(s) == UNION {Cells(s[k]) : k \in 1..Len(s)}

\* C1: mergeIntervals(X) is sorted by start ascending, its intervals are
\* pairwise non-overlapping, it covers exactly the time X covers, and it is
\* empty for the empty list.
C1_MergeCorrect ==
  algPc = "merged" =>
    /\ \A i \in 1..Len(algOut) : \A j \in 1..Len(algOut) :
         i < j => /\ algOut[i].start <= algOut[j].start
                  /\ Cells(algOut[i]) \cap Cells(algOut[j]) = {}
    /\ \A i \in 1..Len(algOut) : algOut[i].end > algOut[i].start
    /\ CellsOf(algOut) = CellsOf(algIn.busy)
    /\ (algIn.busy = <<>> => algOut = <<>>)

\* An unsorted input whose second interval contains the first was merged
\* into one interval.
C1_Witness ==
  /\ algPc = "merged"
  /\ Len(algIn.busy) = 2
  /\ algIn.busy[2].start < algIn.busy[1].start
  /\ algIn.busy[2].end > algIn.busy[1].end
  /\ Len(algOut) = 1

AlgDayStart == AtHour(0, algIn.p.workStart)
AlgDayEnd == AtHour(0, algIn.p.workEnd)
\* Busy as the input states it, before any clamping or merging.
BusyAt(t) == \E k \in 1..Len(algIn.busy) : algIn.busy[k].start <= t /\ t < algIn.busy[k].end
\* The maximal busy-free gaps of the workday.
MaximalGaps ==
  {g \in [start : TimeGrid, end : TimeGrid] :
     /\ AlgDayStart <= g.start /\ g.start < g.end /\ g.end <= AlgDayEnd
     /\ \A t \in Cells(g) : ~BusyAt(t)
     /\ (g.start = AlgDayStart \/ BusyAt(g.start - HalfHour))
     /\ (g.end = AlgDayEnd \/ BusyAt(g.end))}
ShortGaps == {g \in MaximalGaps : g.end - g.start < algIn.p.minMinutes}

\* C2: for workStart <= workEnd, the slots of invertBusyToFree and the merged
\* clamped busy intervals never overlap; the part of the workday covered by
\* neither is exactly the maximal gaps shorter than minMinutes; every maximal
\* gap of at least minMinutes is returned unchanged and nothing else is.
C2_Partition ==
  (algPc = "inverted" /\ algIn.p.workStart <= algIn.p.workEnd) =>
    LET p      == algIn.p
        busyM  == mergeIntervals(clampToWorkday(algIn.busy, 0, p.workStart, p.workEnd))
        work   == {t \in TimeGrid : AlgDayStart <= t /\ t < AlgDayEnd}
    IN  /\ CellsOf(algOut) \cap CellsOf(busyM) = {}
        /\ work \ (CellsOf(algOut) \cup CellsOf(busyM)) = UNION {Cells(g) : g \in ShortGaps}
        /\ Range(algOut) = MaximalGaps \ ShortGaps
        /\ Len(algOut) = Cardinality(Range(algOut))
        /\ \A i \in 1..Len(algOut) : \A j \in 1..Len(algOut) :
             i < j => algOut[i].end <= algOut[j].start

\* A gap of exactly minMinutes was kept while a shorter one was dropped.
C2_Witness ==
  /\ algPc = "inverted"
  /\ algIn.p.workStart < algIn.p.workEnd
  /\ algIn.p.minMinutes > 0
  /\ ShortGaps # {}
  /\ \E k \in 1..Len(algOut) : algOut[k].end - algOut[k].start = algIn.p.minMinutes

(***************************************************************************)
(* Claims on the derived free slots and on the details (SpecDetails).      *)
(***************************************************************************)
Overlaps(a, b) == a.start < b.end /\ b.start < a.end

\* C3: in day view and in week view, every free slot derived for a day lies
\* within that day's work hours, overlaps no block of the committed busy
\* state (a block that starts on an earlier day included), and lasts at
\* least minSlot minutes.
C3_FreeSlotsSound ==
  \A d \in DerivedDays :
    LET hours == HoursOf(d)
        slots == freeSlots(d)
    IN  \A k \in 1..Len(slots) :
          /\ AtHour(d, hours.start) <= slots[k].start
          /\ slots[k].end <= AtHour(d, hours.end)
          /\ \A b \in Range(busy) : ~Overlaps(slots[k], b)
          /\ slots[k].end - slots[k].start >= minSlot

\* The same in day view alone.
C3_DayViewSound == view = "day" => C3_FreeSlotsSound

\* The detail records the fetchers of the refreshes in flight have returned
\* or collected so far.
DetailRecords ==
  UNION {Range(r.ms.acc) \cup Range(r.g.acc) : r \in {x \in Range(refreshes) : x.phase = "details"}}

\* C4: every detail record of a private provider record, as a fetcher returns
\* it and as events holds it, has the title "(Privat)" and no location.
C4_PrivateRedacted ==
  \A e \in DetailRecords \cup Range(events) :
    e.isPrivate => e.title = "(Privat)" /\ e.location = Absent

\* The title alone is redacted.
C4_TitleRedacted ==
  \A e \in DetailRecords \cup Range(events) : e.isPrivate => e.title = "(Privat)"

\* C6: a refresh one of whose requests was answered with a status other than
\* 2xx, 429 and 503, in the busy phase or in the details phase, has committed
\* nothing: busy is as it was before that refresh.
C6_FailedCycleCommitsNothing ==
  \A r \in Range(refreshes) :
    (r.returned /\ FailedOne(r).err.kind = "http" /\ r.phase = "details")
      => busy = r.pre

(***************************************************************************)
(* Claims on refresh and on the tokens (SpecRefresh, SpecMicrosoft).       *)
(***************************************************************************)
\* What fetcher f of the busy phase returns if it returns in this step.
C5_Results(f, who) ==
  IF f.pc = "ok" THEN {f.acc}
  ELSE IF f.pc = "request"
  THEN {f.acc \o PageItems("busy", who, page) : page \in PagesOf(Calendar(who))}
  ELSE {}

\* Both busy fetchers of a refresh have returned, the last one in this step,
\* and busy becomes the blocks of both.
C5_Commit ==
  \E i \in 1..Len(refreshes) :
    LET r == refreshes[i] IN
    /\ r.phase = "busy" /\ ~r.returned
    /\ \E m \in C5_Results(r.ms, "ms"), g \in C5_Results(r.g, "g") :
         busy' = busyBlocks(m, g)

\* A refresh called without any usable token: both fetchers return [] at once.
C5_EmptyStart ==
  /\ busy' = <<>>
  /\ googleToken = Null
  /\ ~msalApp \/ "msal.account" \notin sessionStorage

\* A busy fetcher of a refresh throws in this step: err is its message and
\* busy is left alone.
C5_FailKeeps ==
  /\ \A i \in 1..Len(refreshes) :
       (/\ Len(refreshes') = Len(refreshes)
        /\ refreshes[i].phase = "busy" /\ ~refreshes[i].returned
        /\ refreshes'[i].returned)
         => err' = FailedOne(refreshes'[i]).err /\ busy' = busy
  /\ (err' # err /\ err'.endpoint \in {"Graph calendarView", "Google freeBusy",
                                        "acquireTokenPopup"})
       => busy' = busy

\* C5: refresh commits busy only once both busy fetchers have returned, and
\* then the blocks of both; when one of them throws, err is set to its
\* message and busy stays as it was.
C5_BusyAllOrNothing ==
  [][(busy' # busy => C5_Commit \/ C5_EmptyStart) /\ C5_FailKeeps]_vars

\* With Google connected, the Graph request of a refresh failed and nothing
\* was committed.
C5_Witness ==
  /\ err = HttpErr("Graph calendarView", 500)
  /\ googleToken # Null
  /\ busy = <<>> /\ refreshes = <<>> /\ ~loading

\* acquireTokenPopup of refresh i, called after acquireTokenSilent failed,
\* is rejected in this step.
C7_PopupFails(i) ==
  LET r == refreshes[i] IN
  /\ r.phase = "busy" /\ ~r.returned
  /\ r.ms.pc = "token" /\ r.ms.silent = "failed" /\ r.ms.popup = "pending"
  /\ \/ refreshes' = Replace(i, <<>>)
     \/ /\ Len(refreshes') = Len(refreshes)
        /\ refreshes'[i].returned /\ refreshes'[i].ms.popup = "failed"

C8_Order ==
  \A r \in Range(refreshes) :
    /\ r.ms.popup # "none" => r.ms.silent = "failed"
    /\ r.ms.silent = "ok" => r.ms.popup = "none"
    /\ r.ms.silent = "none" => r.ms = ReturnedEmpty
    /\ r.ms.token = Null => r.ms = ReturnedEmpty
    /\ ~r.cap.msalApp => r.ms = ReturnedEmpty

\* A refresh called in this step: its getMsToken has returned null if there
\* is no MSAL app or no account, else acquireTokenSilent is pending.
C8_Call ==
  Len(refreshes') = Len(refreshes) + 1 =>
    LET r == refreshes'[Len(refreshes')] IN
    r.phase = "busy" =>
      r.ms = IF r.cap.msalApp /\ "msal.account" \in sessionStorage
             THEN Fetcher("token", "pending", "none", "unset", FALSE)
             ELSE ReturnedEmpty

\* C8: getMsToken returns null without any acquisition when there is no MSAL
\* app or no account; else acquireTokenSilent comes first, and
\* acquireTokenPopup is called only after it failed.
C8_SilentFirst == [][C8_Call /\ C8_Order']_vars

\* acquireTokenSilent failed and the token of acquireTokenPopup is in use.
C8_Witness ==
  \E r \in Range(refreshes) :
    r.ms.silent = "failed" /\ r.ms.popup = "ok" /\ r.ms.token = "tok" /\ r.ms.sent

C10_ReloadedClean ==
  reloaded => googleToken = Null /\ ~msAccount /\ sessionStorage = {}

(***************************************************************************)
(* Claims on the inactivity timer (SpecTimer).                             *)
(***************************************************************************)
\* C11: every input event replaces the pending inactivity timer by one due
\* 45 minutes later, so that at most one timer is pending; the timer invokes
\* panic at the minute it is due, 45 minutes after the last input event, and
\* the timers change in no other way.
C11_OneTimer ==
  [][/\ Cardinality(pending') <= 1
     /\ timer' # timer =>
          pending' = {[id |-> timer', due |-> now + InactivityMin]}
     /\ (pending' # pending /\ timer' = timer) =>
          /\ \E t \in pending : t.due = now /\ pending' = pending \ {t}
          /\ panicPc' = "revoke" \/ reloaded']_vars

\* The timer set by an input event after the mount has fired and panic has
\* reloaded the page.
C11_Witness ==
  /\ reloaded /\ pending = {} /\ timer > 1
  /\ now > InactivityMin

(***************************************************************************)
(* C12: the Google token is kept in memory only.                           *)
(***************************************************************************)
\* The access tokens of the two providers.
Tokens == {"gtok", "tok"}

\* Every string the component has put into localStorage, keys included.
StoredStrings ==
  DOMAIN localStorage
  \cup {localStorage["theme"], localStorage["displayTimezone"],
        localStorage["sourceColors"].google, localStorage["sourceColors"].microsoft,
        localStorage[CUSTOM_HOURS_MODE_STORAGE_KEY]}
  \cup {v.name : v \in Range(localStorage[SAVED_VIEWS_STORAGE_KEY])}
  \cup {v.view : v \in Range(localStorage[SAVED_VIEWS_STORAGE_KEY])}

\* C12: the Google access token is held in the component's memory only: it
\* is never written to sessionStorage, which holds nothing but the entries of
\* the Microsoft library, nor to localStorage, and no token of either provider
\* is written to localStorage.
C12_TokenInMemoryOnly ==
  /\ sessionStorage \subseteq MsalKeys
  /\ googleToken \notin sessionStorage
  /\ StoredStrings \cap Tokens = {}

\* Both providers are connected and a saved view has been stored.
C12_Witness ==
  /\ googleToken = "gtok" /\ msAccount
  /\ sessionStorage # {}
  /\ Len(localStorage[SAVED_VIEWS_STORAGE_KEY]) > 0

(***************************************************************************)
(* Claims on the fetchers (SpecFetch).                                     *)
(***************************************************************************)
RECURSIVE Flatten(_)
Flatten(lists) == IF lists = <<>> THEN <<>> ELSE Head(lists) \o Flatten(Tail(lists))

\* The fetcher under test.
Fetching(phase, who) == fetchCall.phase = phase /\ fetchCall.who = who

\* The intervals of the entries of a page that are in `wanted`, in the
\* order of the page.
IntervalsOf(page, wanted) ==
  LET kept == SelectSeqBy(page, Range(page) \cap wanted)
  IN  MapSeq(kept, [e \in Range(kept) |-> Interval(e.start, e.end)])

\* The entries whose showAs is not "free".
NotFree == {e \in GraphBusyEntries : e.showAs # "free"}

\* C13 as stated: fetchGraphFreeBusy returns an entry as a busy interval if
\* and only if its showAs is not exactly "free"; entries that are busy,
\* tentative, oof, workingElsewhere, unknown or without a status are all
\* returned, and only "free" entries are left out.
C13_BusyIffNotFree ==
  (Fetching("busy", "ms") /\ fetchCall.pc = "ok") =>
    fetchCall.acc =
      Flatten([n \in 1..Len(fetchCall.server) |-> IntervalsOf(fetchCall.server[n], NotFree)])

\* C13, amended: of the entries that end after they start,
\* fetchGraphFreeBusy returns as busy intervals exactly those whose showAs
\* is not "free", a missing status included; an entry of no or negative
\* length is left out whatever its status.
C13_PositiveBusyIffNotFree ==
  (Fetching("busy", "ms") /\ fetchCall.pc = "ok") =>
    fetchCall.acc =
      Flatten([n \in 1..Len(fetchCall.server) |->
                 IntervalsOf(fetchCall.server[n], {e \in NotFree : e.end > e.start})])

\* fetchGraphFreeBusy has returned an entry without a status as busy.
C13_Witness ==
  /\ Fetching("busy", "ms") /\ fetchCall.pc = "ok"
  /\ \E e \in Range(fetchCall.server[1]) : e.showAs = Absent
  /\ fetchCall.acc # <<>>

\* The valid entries of every page of the listing, page after page, as the
\* fetcher renders them.
Expected(f) ==
  Flatten([n \in 1..Len(f.server) |->
             KeepPositive(PageItems(f.phase, f.who, f.server[n]))])

IsPrefix(s, t) == Len(s) <= Len(t) /\ s = SubSeq(t, 1, Len(s))

\* A fetcher that follows pages: all but fetchGoogleFreeBusy.
Paginated == ~Fetching("busy", "g")

\* The URL names nothing but the continuation of the latest response, and
\* the entries gathered so far are those of the pages before it, once each.
FollowsPages(f) ==
  /\ Len(f.url) <= 1
  /\ f.pc \in {"request", "backoff"} => IsPrefix(KeepPositive(f.acc), Expected(f))
  /\ f.pc = "ok" => f.acc = Expected(f)

\* C14: each paginated fetch asks for the next page with the continuation
\* of the most recent successful response until a response has none, a
\* 429/503 repeats the request of the same page with the entries gathered so
\* far kept, and the result holds every valid entry of every page exactly
\* once.
C14_Pagination ==
  [][Paginated =>
       /\ FollowsPages(fetchCall')
       /\ fetchCall.pc = "backoff" =>
            /\ fetchCall'.pc = "request"
            /\ fetchCall'.url = fetchCall.url /\ fetchCall'.acc = fetchCall.acc]_vars

\* The two Graph fetchers follow @odata.nextLink as C14 says.
C14_GraphPagination ==
  [][fetchCall.who = "ms" =>
       /\ FollowsPages(fetchCall')
       /\ fetchCall.pc = "backoff" =>
            /\ fetchCall'.pc = "request"
            /\ fetchCall'.url = fetchCall.url /\ fetchCall'.acc = fetchCall.acc]_vars

\* C15: a fetcher sleeps and repeats its request only on 429 and 503; any
\* other status that is not 2xx ends the fetch at once with an error that
\* names the endpoint and the status, and the fetch sends nothing more.
C15_RetryOnlyThrottled ==
  [][/\ fetchCall.pc \notin {"failed", "ok"}
     /\ fetchCall.pc = "request" =>
          LET status == fetchCall'.status IN
          /\ fetchCall'.pc = "backoff" <=> status \in {429, 503}
          /\ fetchCall'.pc = "failed" <=> status \notin {200, 429, 503}
          /\ fetchCall'.pc = "failed" =>
               /\ fetchCall'.err.kind = "http"
               /\ fetchCall'.err.endpoint = Endpoint(fetchCall.phase, fetchCall.who)
               /\ fetchCall'.err.status = status
               /\ status \notin {200, 429, 503}]_vars

\* A page was fetched, then a request was answered with 500 and the fetch
\* failed.
C15_Witness ==
  /\ fetchCall.pc = "failed" /\ fetchCall.url # <<>>
  /\ fetchCall.err = HttpErr(Endpoint(fetchCall.phase, fetchCall.who), 500)

\* C17: for a response whose Retry-After parses as a number s of seconds,
\* backoff waits at least s and less than s + 1 seconds (for "2", from 2000
\* to under 3000 ms); with the header absent or not a number it waits from
\* baseMs to capMs, 1000 to 8000 ms by default.
C17_BackoffBounds ==
  fetchCall.pc = "backoff" =>
    LET sec == NumberOf(fetchCall.retryAfter) IN
    IF fetchCall.retryAfter # Null /\ ~sec.nan
    THEN sec.value * 1000 <= fetchCall.wait /\ fetchCall.wait < (sec.value + 1) * 1000
    ELSE DefaultBaseMs <= fetchCall.wait /\ fetchCall.wait <= DefaultCapMs

\* backoff has slept for a response with Retry-After: 2.
C17_Witness ==
  /\ fetchCall.pc = "backoff" /\ fetchCall.retryAfter = "2"
  /\ fetchCall.wait > 2000

\* C18: every interval and every event a fetcher returns, which is what
\* refresh commits to busy and events, ends after it starts; entries of no
\* or negative length are dropped by the fetcher before it returns.
C18_PositiveLength ==
  fetchCall.pc = "ok" => \A x \in Range(fetchCall.acc) : x.end > x.start

\* A detail fetcher has returned events from a listing that also held an
\* entry of no length.
C18_Witness ==
  /\ fetchCall.pc = "ok" /\ fetchCall.phase = "details"
  /\ fetchCall.acc # <<>>
  /\ \E n \in 1..Len(fetchCall.server) :
       \E e \in Range(fetchCall.server[n]) : e.end <= e.start

(***************************************************************************)
(* C16: throttling (SpecThrottle).                                         *)
(***************************************************************************)
\* Fetcher `who` of some refresh sleeps in backoff.
Throttled(who) == \E i \in 1..Len(refreshes) : refreshes[i][who].pc = "backoff"

\* C16 as stated, its last part: while a provider throttles, the refresh
\* that awaits the throttled fetch has not completed and loading is true.
C16_ThrottledNeverCompletes ==
  \A i \in 1..Len(refreshes), who \in {"ms", "g"} :
    refreshes[i][who].pc = "backoff" => ~refreshes[i].returned /\ loading

\* A sleeping fetcher does nothing but send its request again, however
\* often it has slept, and keeps what it has gathered.
C16_NoCeiling ==
  \A i \in 1..Len(refreshes), who \in {"ms", "g"} :
    refreshes[i][who].pc = "backoff" =>
      /\ i \in 1..Len(refreshes')
      /\ refreshes'[i][who].pc \in {"backoff", "request"}
      /\ refreshes'[i][who].acc = refreshes[i][who].acc
      /\ refreshes'[i][who].err = NoErr

\* A refresh has returned before a fetcher of it only by the failure of the
\* other fetcher.
C16_ReturnedByFailure ==
  \A i \in 1..Len(refreshes), who \in {"ms", "g"} :
    (Running(refreshes[i][who]) /\ refreshes[i].returned) =>
      /\ refreshes[i][IF who = "ms" THEN "g" ELSE "ms"].pc = "failed"
      /\ refreshes[i].phase = "details" \/ busy = <<>>

\* C16, amended: there is no retry ceiling, a fetch never fails because of
\* the number of 429/503 responses; it ends if and only if the provider at
\* last answers with another status; and while a provider throttles, the
\* refresh awaiting that fetch returns only if the fetch of the other
\* provider fails, without committing results, else it stays in flight.
C16_RetriesWithoutEnd ==
  /\ [][C16_NoCeiling /\ C16_ReturnedByFailure']_vars
  /\ \A who \in {"ms", "g"} : Throttled(who) ~> ~Throttled(who)
  /\ ([]<>Throttled("ms")) \/ ([]<>Throttled("g")) \/ <>[](refreshes = <<>>)

\* The Microsoft fetcher sleeps in backoff after the Google fetcher failed:
\* the refresh has returned with the error.
C16_Witness ==
  /\ Len(refreshes) = 1
  /\ refreshes[1].ms.pc = "backoff" /\ refreshes[1].g.pc = "failed"
  /\ refreshes[1].returned /\ ~loading /\ err # NoErr

(***************************************************************************)
(* C19: work hours (SpecHours).                                            *)
(***************************************************************************)
\* C19: whatever the user has edited, the work hours used to derive the
\* free slots of each day satisfy 0 <= start <= end <= 23.
C19_HoursWellFormed ==
  \A d \in 0..6 :
    LET hours == HoursOf(d)
    IN  0 <= hours.start /\ hours.start <= hours.end /\ hours.end <= 23

\* The per-day hours alone are kept within 0 <= start <= end <= 23.
C19_CustomHoursWellFormed ==
  \A day \in DAY_INDICES :
    /\ 0 <= customWorkHours[day].start
    /\ customWorkHours[day].start <= customWorkHours[day].end
    /\ customWorkHours[day].end <= 23

(***************************************************************************)
(* C20: the week view (SpecDetails).                                       *)
(***************************************************************************)
\* The merged busy time that falls on day d, cut to the day.
BusyFallingOn(d) ==
  LET merged == mergeIntervals(Untag(busy))
      kept == SelectSeqBy(merged, {b \in Range(merged) :
                                     b.start < (d + 1) * DayMin /\ b.end > d * DayMin})
  IN  MapSeq(kept, [b \in Range(kept) |->
                      Interval(Max(b.start, d * DayMin), Min(b.end, (d + 1) * DayMin))])

\* C20: in week view freeSlots has exactly seven entries, for Monday to
\* Sunday of the week that holds the selected date, each under its own day
\* and each derived from the busy time that falls on that day and from that
\* day's work hours (the weekday's custom entry with custom hours on, else
\* the uniform pair).
C20_WeekPerDay ==
  view = "week" =>
    /\ Cardinality(DerivedDays) = 7
    /\ date \in DerivedDays
    /\ \A d \in DerivedDays : getDay(d) = 1 <=> \A e \in DerivedDays : d <= e
    /\ \A d \in DerivedDays :
         freeSlots(d) = invertBusyToFree(BusyFallingOn(d), d, HoursOf(d).start,
                                         HoursOf(d).end, minSlot)

\* The seven days of the week view are Monday to Sunday of the selected
\* date's week.
C20_SevenDays ==
  view = "week" =>
    /\ Cardinality(DerivedDays) = 7
    /\ date \in DerivedDays
    /\ \A d \in DerivedDays : getDay(d) = 1 <=> \A e \in DerivedDays : d <= e

(***************************************************************************)
(* Claims on the date functions (SpecDates).                               *)
(***************************************************************************)
\* The Monday of the Monday-to-Sunday week that holds civil day d.
MondayOf(d) == d - ((getDay(d) + 6) % 7)

\* The bounds weekBoundsISO returned, as local clock readings, are 00:00 of
\* the Monday and 23:59 of the Sunday of the week of the date.
WeekBoundsRight ==
  LET out == algOut[1]
      monday == MondayOf(algIn.p.date)
  IN  /\ out.startISO + algIn.p.offset = monday * DayMin
      /\ out.endISO + algIn.p.offset = (monday + 6) * DayMin + DayMin - 1

\* C21: for every civil date and every time zone offset, weekBoundsISO
\* starts at 00:00 local of the Monday and ends at 23:59:59 local of the
\* Sunday of the week that holds the date; a Sunday gives the week ending
\* that day, a Monday the week beginning that day.
C21_WeekBounds == algPc = "week" => WeekBoundsRight

\* In the time zones at or east of UTC the bounds are those of the week.
C21_WeekBoundsEast == (algPc = "week" /\ algIn.p.offset >= 0) => WeekBoundsRight

(***************************************************************************)
(* C22: mergeIntervals merges intervals that merely touch, so that in its  *)
(* output every interval ends strictly before the next one starts; two     *)
(* inputs of which the second starts where the first ends come out as the  *)
(* one interval spanning both.                                             *)
(***************************************************************************)
Touching(s) == Len(s) = 2 /\ s[2].start = s[1].end

C22_TouchingMerged ==
  algPc = "merged" =>
    /\ \A i \in 1..(Len(algOut) - 1) : algOut[i].end < algOut[i + 1].start
    /\ Touching(algIn.busy) =>
         algOut = <<Interval(algIn.busy[1].start, algIn.busy[2].end)>>

C22_Witness ==
  /\ algPc = "merged"
  /\ Touching(algIn.busy)
  /\ Len(algOut) = 1

(***************************************************************************)
(* C23: mergeIntervals is idempotent: applied to its own output it returns *)
(* that output.                                                            *)
(***************************************************************************)
C23_Idempotent ==
  algPc = "merged" => mergeIntervals(algOut) = algOut

C23_Witness ==
  /\ algPc = "merged"
  /\ Len(algOut) = 2
  /\ algOut # algIn.busy
  /\ mergeIntervals(algOut) = algOut

(***************************************************************************)
(* C24: clampToWorkday returns, in input order, the intersection of every  *)
(* input with the working window of the day and leaves out the inputs      *)
(* whose intersection is empty or inverted; every output lies in the       *)
(* window and has positive length, and a window whose end is not after its *)
(* start gives no output.                                                  *)
(***************************************************************************)
ClampWindow == Interval(AtHour(0, algIn.p.workStart), AtHour(0, algIn.p.workEnd))
Meet(i, w) == Interval(Max(i.start, w.start), Min(i.end, w.end))
ClampKept == {k \in 1..Len(algIn.busy) :
                Meet(algIn.busy[k], ClampWindow).start < Meet(algIn.busy[k], ClampWindow).end}
NthKept(n) == CHOOSE k \in ClampKept : Cardinality({j \in ClampKept : j <= k}) = n

C24_ClampIsIntersection ==
  algPc = "clamped" =>
    /\ Len(algOut) = Cardinality(ClampKept)
    /\ \A n \in 1..Len(algOut) :
         /\ algOut[n] = Meet(algIn.busy[NthKept(n)], ClampWindow)
         /\ ClampWindow.start <= algOut[n].start
         /\ algOut[n].start < algOut[n].end
         /\ algOut[n].end <= ClampWindow.end
    /\ algIn.p.workEnd <= algIn.p.workStart => algOut = <<>>

C24_Witness ==
  /\ algPc = "clamped"
  /\ Len(algIn.busy) = 2
  /\ Len(algOut) = 1
  /\ algOut[1] = Meet(algIn.busy[2], ClampWindow)
  /\ algOut[1] # algIn.busy[2]
  /\ Meet(algIn.busy[1], ClampWindow).start = Meet(algIn.busy[1], ClampWindow).end

(***************************************************************************)
(* C25: while details mode is off no title or location is held: once the   *)
(* refreshes called for the current selection have all finished, details   *)
(* mode being off, the events list is empty.                               *)
(***************************************************************************)
Settled == refreshes = <<>> /\ ~effectPending

C25_NoDetailsWhenOff ==
  (~detailsMode /\ Settled) => events = <<>>

\* The part that holds: a refresh whose closure has details mode off never
\* runs a details fetcher.
C25_OffRefreshAsksNoDetails ==
  \A i \in 1..Len(refreshes) :
    refreshes[i].phase = "details" => refreshes[i].cap.detailsMode

(***************************************************************************)
(* C26: refreshes are neither cancelled nor sequenced: a call of refresh   *)
(* leaves the refreshes in flight as they are, and whichever refresh gets  *)
(* the last of its busy results writes them over what is committed, a      *)
(* refresh started before the one that wrote last included.                *)
(***************************************************************************)
\* Refresh i, not yet returned, gets the last of its busy results in this
\* step and ends (details mode off in its closure) without an error.
C26_Finishes(i) ==
  LET r == refreshes[i] IN
  /\ r.phase = "busy" /\ ~r.returned /\ ~r.cap.detailsMode
  /\ refreshes' = Replace(i, <<>>)
  /\ err' = NoErr /\ ~loading'

\* Every refresh in flight stays in flight, at its place and with its closure.
C26_AllGoOn ==
  /\ Len(refreshes') >= Len(refreshes)
  /\ \A i \in 1..Len(refreshes) : refreshes'[i].cap = refreshes[i].cap

C26_LastWriteWins ==
  [][/\ C26_AllGoOn \/ \E i \in 1..Len(refreshes) : refreshes' = Replace(i, <<>>)
     /\ \A i \in 1..Len(refreshes) :
          C26_Finishes(i) =>
            /\ \E m \in C5_Results(refreshes[i].ms, "ms"),
                  g \in C5_Results(refreshes[i].g, "g") :
                 busy' = busyBlocks(m, g)
            /\ events' = <<>>]_vars

\* The refresh started last has committed its busy blocks and fetches the
\* details, and the one started before it still waits for its busy results.
C26_Witness ==
  /\ Len(refreshes) = 2
  /\ refreshes[2].phase = "details"
  /\ refreshes[1].phase = "busy" /\ ~refreshes[1].returned
  /\ ~refreshes[1].cap.detailsMode
  /\ refreshes[1].g.pc = "request"
  /\ busy # <<>>
(***************************************************************************)
(* C27: when no refresh is in flight and err is null, the committed busy   *)
(* blocks were fetched for the selected date and view: a refresh that      *)
(* commits its busy blocks and leaves nothing in flight or pending was     *)
(* called with the date and the view that are selected, and the refresh    *)
(* that the Google token callback starts is called with the date and the   *)
(* view selected when the token arrives.                                   *)
(***************************************************************************)
C27_CommitsLast(i) ==
  /\ C26_Finishes(i)
  /\ refreshes' = <<>> /\ ~effectPending'

C27_TokenArrives ==
  /\ googlePending /\ ~googlePending' /\ googleToken' # Null
  /\ Len(refreshes') > Len(refreshes)

C27_BusyForSelection ==
  [][/\ \A i \in 1..Len(refreshes) :
          C27_CommitsLast(i) =>
            refreshes[i].cap.view = view' /\ refreshes[i].cap.date = date'
     /\ C27_TokenArrives =>
          LET r == refreshes'[Len(refreshes')]
          IN  r.cap.view = view /\ r.cap.date = date]_vars

(***************************************************************************)
(* C28: panic called by the inactivity timer does what panic called by the *)
(* button does in the same state: with a Microsoft session, every call of  *)
(* panic invokes the MSAL logout first.                                    *)
(***************************************************************************)
\* panic() is called in this step, by the button or by the timer.
C28_PanicCalled ==
  /\ panicPc = "idle" /\ ~reloaded
  /\ panicPc' # "idle" \/ reloaded'

C28_SameTeardown ==
  [][(C28_PanicCalled /\ msalApp /\ msAccount) => panicPc' = "logout"]_vars

(***************************************************************************)
(* C29: panic supersedes the work in flight: when panic is called while    *)
(* refreshes are in flight, none of them is able to commit busy, events or *)
(* err from then on.  The call of panic starts no refresh, so the          *)
(* refreshes in flight in the state it leaves were all started before it.  *)
(***************************************************************************)
\* A response to a refresh in flight makes it commit busy, events or err.
C29_Commits ==
  /\ ProviderResponds
  /\ busy' # busy \/ events' # events \/ err' # err

\* The call of panic leaves the refreshes in flight as they are.
C29_PanicStartsNone ==
  [][C28_PanicCalled => refreshes' = refreshes]_vars

C29_PanicSupersedes ==
  [][(C28_PanicCalled /\ refreshes # <<>>) => ~(ENABLED C29_Commits)']_vars

(***************************************************************************)
(* C30: in details mode the period a refresh asks the details endpoints    *)
(* for is the period it asks the busy endpoints for: the selected day in   *)
(* day view, the week of the selected date in week view.                   *)
(***************************************************************************)
\* view === 'day' ? dayBoundsISO(date) : weekBoundsISO(date), in refresh
BusyPeriod(cap, offset) ==
  IF cap.view = "day" THEN dayBoundsISO(cap.date, offset)
  ELSE weekBoundsISO(cap.date, offset)

\* fetchGraphDetails(date), fetchGoogleDetails(date): dayBoundsISO(day)
DetailsPeriod(cap, offset) == dayBoundsISO(cap.date, offset)

C30_SamePeriod ==
  \A i \in 1..Len(refreshes) :
    (refreshes[i].phase = "details" /\ (refreshes[i].ms.sent \/ refreshes[i].g.sent))
      => \A o \in TzOffsets :
           DetailsPeriod(refreshes[i].cap, o) = BusyPeriod(refreshes[i].cap, o)

\* The part that holds: in day view both are the selected day.
C30_DayViewSamePeriod ==
  \A i \in 1..Len(refreshes) :
    (refreshes[i].phase = "details" /\ refreshes[i].cap.view = "day")
      => \A o \in TzOffsets :
           DetailsPeriod(refreshes[i].cap, o) = BusyPeriod(refreshes[i].cap, o)

(***************************************************************************)
(* C31: every request fetchGoogleDetails sends after the first carries     *)
(* exactly one page token, the nextPageToken of the response before it,    *)
(* however many pages the listing has.                                     *)
(***************************************************************************)
C31_OnePageToken ==
  [][(Fetching("details", "g") /\ fetchCall.pc = "request" /\ fetchCall'.pc = "request")
       => fetchCall'.url = <<NextOf(fetchCall.server, PageAsked(fetchCall.url, fetchCall.dup))>>]_vars

\* The part that holds: the second request carries the token of the first
\* response alone.
C31_SecondRequest ==
  [][(Fetching("details", "g") /\ fetchCall.url = <<>>
        /\ fetchCall.pc = "request" /\ fetchCall'.pc = "request")
       => fetchCall'.url = <<NextOf(fetchCall.server, 1)>>]_vars

(***************************************************************************)
(* C32: a change of the date, the details mode, the connection state or    *)
(* the view schedules a run of the refresh effect, and every run of the    *)
(* effect calls refresh; a change of the work-hour settings or of the      *)
(* minimum gap alone starts no refresh and no request and leaves busy and  *)
(* events as they are.                                                     *)
(***************************************************************************)
C32_DepChanged ==
  \/ date' # date \/ detailsMode' # detailsMode \/ view' # view
  \/ msAccount' # msAccount \/ googleConnected' # googleConnected

C32_SettingChanged ==
  \/ workStart' # workStart \/ workEnd' # workEnd \/ minSlot' # minSlot
  \/ useCustomWorkHours' # useCustomWorkHours \/ customWorkHours' # customWorkHours

\* refresh() is called in this step with the closure of the current render.
C32_RefreshCalled ==
  LET out == Started(Capture, googleToken)
  IN  /\ refreshes' = refreshes \o out.left
      /\ busy' = out.ui.busy /\ events' = out.ui.events
      /\ err' = out.ui.err /\ loading' = out.ui.loading

Reorderings(s) ==
  {[i \in 1..Len(s) |-> s[f[i]]] :
     f \in {g \in [1..Len(s) -> 1..Len(s)] : \A i, j \in 1..Len(s) : g[i] = g[j] => i = j}}

\* The cursor after the first k intervals of the scan of invertBusyToFree.
CursorAfter(k) ==
  LET p == algIn.p
      merged == mergeIntervals(clampToWorkday(algIn.busy, 0, p.workStart, p.workEnd))
  IN  InvertScan(SubSeq(merged, 1, k), 1, AtHour(0, p.workStart), <<>>).cursor

ScanLength ==
  Len(mergeIntervals(clampToWorkday(algIn.busy, 0, algIn.p.workStart, algIn.p.workEnd)))

C33_OrderIndependent ==
  algPc = "inverted" =>
    LET p == algIn.p
    IN  /\ \A q \in Reorderings(algIn.busy) :
             invertBusyToFree(q, 0, p.workStart, p.workEnd, p.minMinutes) = algOut
        /\ invertBusyToFree(mergeIntervals(algIn.busy), 0, p.workStart, p.workEnd,
                            p.minMinutes) = algOut
        /\ \A k \in 1..ScanLength : CursorAfter(k - 1) <= CursorAfter(k)

\* An unsorted list whose first interval lies inside the second, with a free
\* slot before it.
C33_Witness ==
  /\ algPc = "inverted"
  /\ Len(algIn.busy) = 2
  /\ algIn.busy[2].start < algIn.busy[1].start
  /\ algIn.busy[1].end < algIn.busy[2].end
  /\ mergeIntervals(algIn.busy) # algIn.busy
  /\ algOut # <<>>

(***************************************************************************)
(* C34: mergeIntervals, clampToWorkday and invertBusyToFree are pure:      *)
(* when a call has returned, every interval object that was passed in has  *)
(* the start and the end it had before the call.                           *)
(***************************************************************************)
C34_InputsUntouched ==
  algPc \in {"merged", "clamped", "inverted"} => algIn.objects = algIn.busy

\* The part of C34 that holds: clampToWorkday and invertBusyToFree leave the
\* objects they were given as they were.
C34_ClampInvertPure ==
  algPc \in {"clamped", "inverted"} => algIn.objects = algIn.busy

(***************************************************************************)
(* C35: a provider becomes connected only when its interactive sign-in     *)
(* succeeds.  A loginPopup that settles either connects Microsoft or       *)
(* leaves the account as it was and sets err; a token callback either      *)
(* brings a token and connects Google or leaves the token and              *)
(* googleConnected as they were and sets err; connectGoogle before the     *)
(* token client is ready sets err and requests no token.                   *)
(***************************************************************************)
C35_PopupSettled == loginPending /\ ~loginPending'
C35_CallbackRan == googlePending /\ ~googlePending'

C35_ConnectOnlyOnSuccess ==
  [][/\ (~msAccount /\ msAccount') => C35_PopupSettled
     /\ ("msal.account" \notin sessionStorage /\ "msal.account" \in sessionStorage')
          => C35_PopupSettled
     /\ (~googleConnected /\ googleConnected') => (C35_CallbackRan /\ googleToken' # Null)
     /\ C35_PopupSettled =>
          \/ msAccount' /\ "msal.account" \in sessionStorage'
          \/ /\ UNCHANGED <<msAccount, sessionStorage>>
             /\ err' = MsalErr("loginPopup")
     /\ C35_CallbackRan =>
          \/ googleConnected' /\ googleToken' # Null
          \/ /\ UNCHANGED <<googleToken, googleConnected>>
             /\ err' = GoogleErr("no access_token")
     /\ (ConnectGoogle /\ ~googleReady) =>
          /\ err' = GoogleErr("not ready")
          /\ UNCHANGED <<googlePending, googleToken, googleConnected>>
     /\ googlePending' => googleReady']_vars

\* Microsoft is connected, and Google's callback came without a token.
C35_Witness ==
  /\ msAccount
  /\ err = GoogleErr("no access_token")
  /\ ~googleConnected /\ googleToken = Null /\ ~googlePending

(***************************************************************************)
(* C36: in every reachable state googleConnected is true exactly when the  *)
(* Google token held in memory is not null.                                *)
(***************************************************************************)
C36_ConnectedIffToken == googleConnected <=> (googleToken # Null)

\* The token callback sets both, panic clears both, and no other step
\* changes either of them.
C36_OnlyCallbackAndPanic ==
  [][(googleToken' # googleToken \/ googleConnected' # googleConnected) =>
       \/ C35_CallbackRan /\ googleToken' # Null /\ googleConnected'
       \/ /\ panicPc' = "idle" /\ reloaded'
          /\ googleToken' = Null /\ ~googleConnected']_vars

\* Panic awaits the revocation with Google's busy blocks on screen: the token
\* and the flag are both still set.
C36_Witness ==
  /\ panicPc = "revoke" /\ busy # <<>>
  /\ googleConnected /\ googleToken # Null

(***************************************************************************)
(* C37: loading is true in every state in which at least one refresh is    *)
(* in flight and false in every state in which none is, also when several  *)
(* refreshes overlap.                                                      *)
(***************************************************************************)
C37_InFlight == {i \in 1..Len(refreshes) : ~refreshes[i].returned}

C37_LoadingIffInFlight == loading <=> (C37_InFlight # {})

\* The part of C37 that holds: with no refresh in flight loading is false.
C37_IdleNotLoading == (C37_InFlight = {}) => ~loading

(***************************************************************************)
(* C38: when a refresh in details mode succeeds, events becomes the        *)
(* details of both adapters in ascending order of start: every event of    *)
(* either adapter is there as often as the adapter returned it, and        *)
(* nothing else.                                                           *)
(***************************************************************************)
C38_Ascending(s) == \A i \in 1..(Len(s) - 1) : s[i].start <= s[i + 1].start
C38_Count(s, x) == Cardinality({i \in DOMAIN s : s[i] = x})
C38_SameEvents(s, t) ==
  /\ Len(s) = Len(t)
  /\ \A x \in Range(s) \cup Range(t) : C38_Count(s, x) = C38_Count(t, x)

\* What the details fetcher f of provider `who` returns, now or with the
\* response it is waiting for.
C38_Results(f, who) ==
  IF f.pc = "ok" THEN {KeepPositive(f.acc)}
  ELSE IF f.pc = "request"
  THEN {KeepPositive(f.acc \o PageItems("details", who, page)) :
          page \in PagesOf(Calendar(who))}
  ELSE {}

\* Refresh i leaves its details phase in this step: its Promise.all resolved
\* or rejected and its finally has run.
C38_Ends(i) ==
  /\ refreshes[i].phase = "details" /\ ~refreshes[i].returned
  /\ refreshes' = Replace(i, <<>>)

\* It does so with no error on screen: it succeeded.
C38_Succeeds(i) == C38_Ends(i) /\ err' = NoErr

C38_Merged(i) ==
  \E m \in C38_Results(refreshes[i].ms, "ms"), g \in C38_Results(refreshes[i].g, "g") :
    /\ C38_Ascending(events')
    /\ C38_SameEvents(events', m \o g)

C38_EventsAreSortedUnion ==
  [][/\ \A i \in 1..Len(refreshes) : C38_Succeeds(i) => C38_Merged(i)
     /\ events' # events =>
          \/ events' = <<>>
          \/ \E i \in 1..Len(refreshes) : C38_Ends(i) /\ C38_Merged(i)]_vars

\* The Microsoft event starts after the Google event and is shown after it.
C38_Witness ==
  /\ refreshes = <<>> /\ err = NoErr /\ detailsMode
  /\ Len(events) = 2
  /\ events[1].source = "google" /\ events[2].source = "microsoft"

(***************************************************************************)
(* C39: when the busy fetchers of a refresh have both returned, busy       *)
(* becomes the Microsoft adapter's intervals, each tagged "microsoft",     *)
(* followed by the Google adapter's, each tagged "google", with the start  *)
(* and end the adapter gave: one block per interval, in the adapters'      *)
(* order, none dropped, repeated or merged.                                *)
(***************************************************************************)
C39_Block(i, source) == [start |-> i.start, end |-> i.end, source |-> source]

C39_Exactly(blocks, m, g) ==
  /\ Len(blocks) = Len(m) + Len(g)
  /\ \A k \in 1..Len(m) : blocks[k] = C39_Block(m[k], "microsoft")
  /\ \A k \in 1..Len(g) : blocks[Len(m) + k] = C39_Block(g[k], "google")

\* Refresh i leaves its busy phase in this step with no error: it goes on
\* to its details, or it is over.
C39_BusyDone(i) ==
  /\ refreshes[i].phase = "busy" /\ ~refreshes[i].returned
  /\ \/ refreshes' = Replace(i, <<>>) /\ err' = NoErr
     \/ /\ Len(refreshes') = Len(refreshes)
        /\ refreshes'[i].phase = "details"

C39_Committed(i) ==
  \E m \in C5_Results(refreshes[i].ms, "ms"), g \in C5_Results(refreshes[i].g, "g") :
    C39_Exactly(busy', m, g)

C39_BusyIsBothAdapters ==
  [][/\ \A i \in 1..Len(refreshes) : C39_BusyDone(i) => C39_Committed(i)
     /\ busy' # busy =>
          \E i \in 1..Len(refreshes) :
            refreshes[i].phase = "busy" /\ ~refreshes[i].returned /\ C39_Committed(i)]_vars

\* Both adapters returned an interval; the Microsoft block is first although
\* it starts later.
C39_Witness ==
  /\ refreshes = <<>> /\ err = NoErr
  /\ Len(busy) = 2
  /\ busy[1].source = "microsoft" /\ busy[2].source = "google"
  /\ busy[2].start < busy[1].start

====
